---------------------------- MODULE Spec2Model ----------------------------
(***************************************************************************)
(* Run-time behaviour of the code emitted by the ARM64 instruction         *)
(* lowering in runtime/vm/intermediate_language_arm64.cc.                  *)
(*                                                                         *)
(* An EmitNativeCode method is modelled by the effect of the instruction   *)
(* sequence it emits: an operator from the compile-time shape of the       *)
(* instruction (operand locations, ranges, flags) and the run-time         *)
(* register contents to the outcome (result registers, guard taken, call   *)
(* made).  Machine words are WordBits wide instead of 64 so that every     *)
(* word value can be enumerated; every constant of the source that is      *)
(* derived from the word width is derived from WordBits the same way.      *)
(***************************************************************************)
EXTENDS Integers, Naturals, Sequences, FiniteSets, TLC

VARIABLES
  instr,   \* the instruction being lowered together with its run-time operands
  out,     \* what running the emitted code produced; NoOut before it ran
  field,   \* the guard slots of the Field object a GuardField checks
  snapshots \* the earlier states of the field that installed code was
            \* compiled against

vars == <<instr, out, field, snapshots>>

\* No code depends on a field.
NoSnapshots == [unoptimized |-> {}, optimized |-> {}]

\* No field is involved in the instruction.
NoField == [guarded_cid |-> 0, is_nullable |-> 0, guarded_list_length |-> 0,
            is_final |-> FALSE]

NoOut == [kind |-> "none"]

(***************************************************************************)
(* Machine words and the Smi encoding.                                     *)
(***************************************************************************)
WordBits == 5

Pow2(n) == 2 ^ n

kSmiTagSize == 1
kSmiTagMask == 1
kSmiBits == WordBits - 2
kWordMod == Pow2(WordBits)
kMinWord == 0 - Pow2(WordBits - 1)
kMaxWord == Pow2(WordBits - 1) - 1
Word == kMinWord..kMaxWord
kSmiMin == 0 - Pow2(kSmiBits)
kSmiMax == Pow2(kSmiBits) - 1
SmiValue == kSmiMin..kSmiMax

\* Two's complement wrap of a mathematical integer into a signed word.
Wrap(v) == ((v - kMinWord) % kWordMod) + kMinWord
\* The word read as an unsigned number.
Unsigned(v) == v % kWordMod

SmiTag(v) == Wrap(v * Pow2(kSmiTagSize))
SmiUntag(w) == w \div Pow2(kSmiTagSize)
SmiRawValue(v) == v * Pow2(kSmiTagSize)
IsSmiWord(w) == w % Pow2(kSmiTagSize) = 0

(***************************************************************************)
(* The assembler primitives the lowering calls, by their A64 semantics.    *)
(***************************************************************************)
Asr(w, n) == w \div Pow2(n)
Lsl(w, n) == Wrap(w * Pow2(n))
Lsr(w, n) == IF n >= WordBits THEN 0 ELSE Wrap(Unsigned(w) \div Pow2(n))
\* Variable shifts use the shift register modulo the register width.
lslv(w, r) == Lsl(w, Unsigned(r) % WordBits)
asrv(w, r) == Asr(w, Unsigned(r) % WordBits)
mul(a, b) == Wrap(a * b)
smulh(a, b) == (a * b) \div kWordMod
msub(rn, rm, ra) == Wrap(ra - rn * rm)
Abs(v) == IF v < 0 THEN 0 - v ELSE v
\* Signed divide: rounds toward zero, yields 0 for a zero divisor and wraps
\* for the most negative word divided by -1; it never traps.
sdiv(a, b) ==
  IF b = 0 THEN 0
  ELSE Wrap((IF (a < 0) = (b < 0) THEN 1 ELSE 0 - 1) * (Abs(a) \div Abs(b)))

\* NZCV after adds / subs (cmp is subs with the result discarded).
AddFlags(a, b) ==
  [n |-> Wrap(a + b) < 0, z |-> Wrap(a + b) = 0,
   c |-> Unsigned(a) + Unsigned(b) >= kWordMod, v |-> Wrap(a + b) # a + b]
SubFlags(a, b) ==
  [n |-> Wrap(a - b) < 0, z |-> Wrap(a - b) = 0,
   c |-> Unsigned(a) >= Unsigned(b), v |-> Wrap(a - b) # a - b]
\* tst / tsti: flags of the bitwise and with the Smi tag mask.
TstSmiTagFlags(w) ==
  [n |-> FALSE, z |-> IsSmiWord(w), c |-> FALSE, v |-> FALSE]

Conditions == {"EQ", "NE", "LT", "LE", "GT", "GE", "CC", "LS", "HI", "CS",
               "MI", "VS"}

Holds(cond, f) ==
  CASE cond = "EQ" -> f.z
    [] cond = "NE" -> ~f.z
    [] cond = "LT" -> f.n # f.v
    [] cond = "GE" -> f.n = f.v
    [] cond = "GT" -> ~f.z /\ (f.n = f.v)
    [] cond = "LE" -> f.z \/ (f.n # f.v)
    [] cond = "CS" -> f.c
    [] cond = "CC" -> ~f.c
    [] cond = "HI" -> f.c /\ ~f.z
    [] cond = "LS" -> ~f.c \/ f.z
    [] cond = "MI" -> f.n
    [] cond = "VS" -> f.v

(***************************************************************************)
(* Ranges computed by range analysis: NullRange (a NULL pointer) or         *)
(* [min, max] over untagged values.                                        *)
(***************************************************************************)
Range(lo, hi) == [null |-> FALSE, min |-> lo, max |-> hi]
NullRange == [null |-> TRUE, min |-> 0, max |-> 0]
IsWithin(range, lo, hi) == (range.min >= lo) /\ (range.max <= hi)
Overlaps(range, lo, hi) == (range.min <= hi) /\ (range.max >= lo)
InRange(range, v) == range.null \/ ((range.min <= v) /\ (v <= range.max))


(***************************************************************************)
(* Outcome of running the code emitted for an arithmetic instruction.      *)
(* sdiv records whether the hardware divide was executed, and with which   *)
(* divisor.                                                                *)
(***************************************************************************)
NoSdiv == [executed |-> FALSE, divisor |-> 0]
Sdiv(b) == [executed |-> TRUE, divisor |-> b]
Done(r, d) == [kind |-> "done", result |-> r, sdiv |-> d]
Deopt(d) == [kind |-> "deopt", result |-> 0, sdiv |-> d]

\* 0x3F: an immediate shift takes WordBits - 1 as its largest count.
kCountLimit == WordBits - 1
\* 0x20000000000000: the largest integer magnitude JavaScript represents.
kJavascriptIntLimit == Pow2(WordBits - 3)

IsPowerOfTwo(v) == (v > 0) /\ (\E n \in 0..WordBits : v = Pow2(n))
ShiftForPowerOfTwo(v) == CHOOSE n \in 0..WordBits : v = Pow2(n)
HighestBit(v) == CHOOSE n \in 0..WordBits :
                   (Pow2(n) <= Abs(v)) /\ (Abs(v) < Pow2(n + 1))

\* The result falls outside the JavaScript integer range: branch to overflow.
EmitJavascriptOverflowCheck(range, o) ==
  IF o.kind # "done" THEN o
  ELSE IF ~IsWithin(range, 0 - kJavascriptIntLimit, kJavascriptIntLimit)
       THEN IF Holds("LT", SubFlags(o.result, 0 - kJavascriptIntLimit))
            THEN Deopt(o.sdiv)
            ELSE IF Holds("GT", SubFlags(o.result, kJavascriptIntLimit))
                 THEN Deopt(o.sdiv)
                 ELSE o
       ELSE o

JavascriptCheck(i, o) ==
  IF i.throw_on_javascript_int_overflow
  THEN EmitJavascriptOverflowCheck(i.range, o)
  ELSE o

(***************************************************************************)
(* BinarySmiOpInstr::MakeLocationSummary: whether in(1) is a constant.     *)
(***************************************************************************)
RightIsPowerOfTwoConstant(i) ==
  i.right_is_constant /\ IsPowerOfTwo(Abs(SmiUntag(i.right)))

RightLocIsConstant(i) ==
  CASE i.op = "TRUNCDIV" -> RightIsPowerOfTwoConstant(i)
    [] i.op = "MOD" -> FALSE
    [] OTHER -> i.right_is_constant


(***************************************************************************)
(* EmitSmiShiftLeft.  i.left and i.right are the tagged operands; when     *)
(* in(1) is a constant i.right is that constant.                           *)
(***************************************************************************)
ShiftLeftConstant(i) ==
  LET value == SmiUntag(i.right)
  IN IF value = 0 THEN Done(i.left, NoSdiv)
     ELSE IF (value < 0) \/ (value >= kCountLimit)
          THEN IF (value >= kCountLimit) /\ i.is_truncating
               THEN Done(0, NoSdiv)
               ELSE Deopt(NoSdiv)
          ELSE IF ~i.is_truncating
                  /\ Holds("NE", SubFlags(i.left, Asr(Lsl(i.left, value), value)))
               THEN Deopt(NoSdiv)
               ELSE Done(Lsl(i.left, value), NoSdiv)

ShiftLeftOfConstant(i) ==
  LET left_int == SmiUntag(i.left)
      max_right == kSmiBits - HighestBit(left_int)
      right_needs_check ==
        i.right_range.null \/ ~IsWithin(i.right_range, 0, max_right - 1)
  IN IF left_int = 0
     THEN IF Holds("MI", SubFlags(i.right, 0)) THEN Deopt(NoSdiv)
          ELSE Done(0, NoSdiv)
     ELSE IF right_needs_check
             /\ Holds("CS", SubFlags(i.right, SmiRawValue(max_right)))
          THEN Deopt(NoSdiv)
          ELSE Done(lslv(i.left, Asr(i.right, kSmiTagSize)), NoSdiv)

ShiftLeftTruncating(i) ==
  LET right_needs_check ==
        i.right_range.null \/ ~IsWithin(i.right_range, 0, kSmiBits - 1)
      right_may_be_negative ==
        i.right_range.null \/ ~IsWithin(i.right_range, 0, kSmiMax)
      flags == SubFlags(i.right, SmiRawValue(kSmiBits))
      shifted == lslv(i.left, Asr(i.right, kSmiTagSize))
  IN IF right_needs_check
     THEN IF right_may_be_negative /\ Holds("MI", SubFlags(i.right, 0))
          THEN Deopt(NoSdiv)
          ELSE Done(IF Holds("CC", flags) THEN shifted ELSE 0, NoSdiv)
     ELSE Done(shifted, NoSdiv)

ShiftLeftChecked(i) ==
  LET right_needs_check ==
        i.right_range.null \/ ~IsWithin(i.right_range, 0, kSmiBits - 1)
      count == Asr(i.right, kSmiTagSize)
      temp == lslv(i.left, count)
  IN IF right_needs_check
        /\ Holds("CS", SubFlags(i.right, SmiRawValue(kSmiBits)))
     THEN Deopt(NoSdiv)
     ELSE IF Holds("NE", SubFlags(i.left, asrv(temp, count)))
          THEN Deopt(NoSdiv)
          ELSE Done(lslv(i.left, count), NoSdiv)

EmitSmiShiftLeft(i) ==
  IF RightLocIsConstant(i)
  THEN JavascriptCheck(i, ShiftLeftConstant(i))
  ELSE IF i.left_is_constant /\ ~i.is_truncating
       THEN JavascriptCheck(i, ShiftLeftOfConstant(i))
       ELSE IF i.is_truncating
            THEN JavascriptCheck(i, ShiftLeftTruncating(i))
            ELSE JavascriptCheck(i, ShiftLeftChecked(i))


(***************************************************************************)
(* Checks shared by the arithmetic lowerings.                              *)
(***************************************************************************)
\* mul, smulh, cmp(TMP, Operand(result, ASR, 63)), b(deopt, NE): the high word
\* of the product is not the sign extension of the low word.
MulOverflows_HighWordZero(a, b) == Holds("NE", SubFlags(smulh(a, b), 0))
MulOverflows(a, b) ==
  Holds("NE", SubFlags(smulh(a, b), Asr(mul(a, b), WordBits - 1)))

\* The divide-by-zero check is emitted unless the range excludes zero.
DivisorMayBeZero_NullOnly(right_range) == right_range.null
DivisorMayBeZero(right_range) ==
  right_range.null \/ Overlaps(right_range, 0, 0)

\* CompareImmediate(left, 0x8000000000000000), b(deopt, EQ): left is the
\* tagged minimum Smi.
IsTaggedMinSmi_Untagged(left) == Holds("EQ", SubFlags(left, SmiUntag(kMinWord)))
IsTaggedMinSmi(left) == Holds("EQ", SubFlags(left, kMinWord))

\* CompareImmediate(result, 0x4000000000000000), b(deopt, EQ): the untagged
\* quotient cannot be tagged.
QuotientNotSmi(result) == Holds("EQ", SubFlags(result, Pow2(WordBits - 2)))

\* BinarySmiOp MOD: sub TMP, add result, csel(result, TMP, result, LT).
ModAdjust(result, right) ==
  IF Holds("GE", SubFlags(result, 0)) THEN result
  ELSE IF Holds("LT", SubFlags(right, 0))
       THEN Wrap(result - right)
       ELSE Wrap(result + right)

\* MergedMath: sub TMP2, add TMP, csel(result_mod, TMP, TMP2, GE).
MergedModAdjust_Swapped(result_mod, right) ==
  IF Holds("GE", SubFlags(result_mod, 0)) THEN result_mod
  ELSE IF Holds("GE", SubFlags(right, 0))
       THEN Wrap(result_mod - right)
       ELSE Wrap(result_mod + right)
MergedModAdjust(result_mod, right) ==
  IF Holds("GE", SubFlags(result_mod, 0)) THEN result_mod
  ELSE IF Holds("GE", SubFlags(right, 0))
       THEN Wrap(result_mod + right)
       ELSE Wrap(result_mod - right)

(***************************************************************************)
(* BinarySmiOpInstr::EmitNativeCode, in(1) a Smi constant.                 *)
(***************************************************************************)
BinarySmiOpConstant(i) ==
  LET left == i.left
      imm == i.right
      value == SmiUntag(i.right)
  IN CASE i.op = "ADD" ->
            IF ~i.can_deopt THEN Done(Wrap(left + imm), NoSdiv)
            ELSE IF Holds("VS", AddFlags(left, imm)) THEN Deopt(NoSdiv)
                 ELSE Done(Wrap(left + imm), NoSdiv)
       [] i.op = "SUB" ->
            IF ~i.can_deopt THEN Done(Wrap(left + (0 - imm)), NoSdiv)
            ELSE IF Holds("VS", SubFlags(left, imm)) THEN Deopt(NoSdiv)
                 ELSE Done(Wrap(left - imm), NoSdiv)
       [] i.op = "MUL" ->
            IF ~i.can_deopt
            THEN IF value = 2 THEN Done(Lsl(left, 1), NoSdiv)
                 ELSE Done(mul(left, value), NoSdiv)
            ELSE IF value = 2
                 THEN IF Holds("NE", SubFlags(Asr(left, WordBits - 1),
                                              Asr(Lsl(left, 1), WordBits - 1)))
                      THEN Deopt(NoSdiv)
                      ELSE Done(Lsl(left, 1), NoSdiv)
                 ELSE IF MulOverflows(left, value)
                      THEN Deopt(NoSdiv)
                      ELSE Done(mul(left, value), NoSdiv)
       [] i.op = "TRUNCDIV" ->
            IF value = 1 THEN Done(left, NoSdiv)
            ELSE IF value = 0 - 1
                 THEN IF IsTaggedMinSmi(left) THEN Deopt(NoSdiv)
                      ELSE Done(Wrap(0 - left), NoSdiv)
                 ELSE LET shift_count ==
                            ShiftForPowerOfTwo(Abs(value)) + kSmiTagSize
                          sign == Asr(left, WordBits - 1)
                          temp == Wrap(left + Lsr(sign, WordBits - shift_count))
                          quot == Asr(temp, shift_count)
                      IN Done(SmiTag(IF value < 0 THEN Wrap(0 - quot) ELSE quot),
                              NoSdiv)

(***************************************************************************)
(* BinarySmiOpInstr::EmitNativeCode, in(1) in a register.                  *)
(***************************************************************************)
BinarySmiOpRegister(i) ==
  LET left == i.left
      right == i.right
      zero_check == DivisorMayBeZero(i.right_range)
  IN CASE i.op = "ADD" ->
            IF ~i.can_deopt THEN Done(Wrap(left + right), NoSdiv)
            ELSE IF Holds("VS", AddFlags(left, right)) THEN Deopt(NoSdiv)
                 ELSE Done(Wrap(left + right), NoSdiv)
       [] i.op = "SUB" ->
            IF ~i.can_deopt THEN Done(Wrap(left - right), NoSdiv)
            ELSE IF Holds("VS", SubFlags(left, right)) THEN Deopt(NoSdiv)
                 ELSE Done(Wrap(left - right), NoSdiv)
       [] i.op = "MUL" ->
            LET tmp == Asr(left, kSmiTagSize)
            IN IF ~i.can_deopt THEN Done(mul(tmp, right), NoSdiv)
               ELSE IF MulOverflows(tmp, right)
                    THEN Deopt(NoSdiv)
                    ELSE Done(mul(tmp, right), NoSdiv)
       [] i.op = "TRUNCDIV" ->
            IF zero_check /\ Holds("EQ", SubFlags(right, 0)) THEN Deopt(NoSdiv)
            ELSE LET temp == Asr(left, kSmiTagSize)
                     tmp == Asr(right, kSmiTagSize)
                     result == sdiv(temp, tmp)
                 IN IF QuotientNotSmi(result)
                    THEN Deopt(Sdiv(tmp))
                    ELSE Done(SmiTag(result), Sdiv(tmp))
       [] i.op = "MOD" ->
            IF zero_check /\ Holds("EQ", SubFlags(right, 0)) THEN Deopt(NoSdiv)
            ELSE LET temp == Asr(left, kSmiTagSize)
                     tmp == Asr(right, kSmiTagSize)
                     quot == sdiv(temp, tmp)
                     result == SmiTag(msub(tmp, quot, temp))
                 IN Done(ModAdjust(result, right), Sdiv(tmp))

BinarySmiOpInstr_EmitNativeCode(i) ==
  IF i.op = "SHL" THEN EmitSmiShiftLeft(i)
  ELSE IF RightLocIsConstant(i)
       THEN JavascriptCheck(i, BinarySmiOpConstant(i))
       ELSE JavascriptCheck(i, BinarySmiOpRegister(i))

(***************************************************************************)
(* MergedMathInstr::EmitNativeCode, kTruncDivMod: a pair of results.       *)
(***************************************************************************)
MergedMathInstr_EmitNativeCode(i) ==
  LET left == i.left
      right == i.right
      zero_check == DivisorMayBeZero(i.right_range)
  IN IF zero_check /\ Holds("EQ", SubFlags(right, 0))
     THEN [kind |-> "deopt", result_div |-> 0, result_mod |-> 0, sdiv |-> NoSdiv]
     ELSE LET untagged == Asr(left, kSmiTagSize)
              tmp == Asr(right, kSmiTagSize)
              result_div == sdiv(untagged, tmp)
              result_mod == SmiTag(msub(tmp, result_div, untagged))
          IN IF QuotientNotSmi(result_div)
             THEN [kind |-> "deopt", result_div |-> 0, result_mod |-> 0,
                   sdiv |-> Sdiv(tmp)]
             ELSE [kind |-> "done", result_div |-> SmiTag(result_div),
                   result_mod |-> MergedModAdjust(result_mod, right),
                   sdiv |-> Sdiv(tmp)]


(***************************************************************************)
(* The emitted code refers to the deopt label: deopt must not be NULL.     *)
(***************************************************************************)
NeedsDeoptLabel(i) ==
  LET value == SmiUntag(i.right)
      zero_check == DivisorMayBeZero(i.right_range)
      javascript == i.throw_on_javascript_int_overflow
                    /\ ~IsWithin(i.range, 0 - kJavascriptIntLimit,
                                 kJavascriptIntLimit)
  IN \/ javascript
     \/ /\ i.op = "SHL"
        /\ IF RightLocIsConstant(i)
           THEN (value < 0) \/ ((value # 0) /\ ~i.is_truncating)
           ELSE IF i.is_truncating
                THEN i.right_range.null
                     \/ ~IsWithin(i.right_range, 0, kSmiMax)
                ELSE TRUE
     \/ (i.op = "TRUNCDIV") /\ RightLocIsConstant(i) /\ (value = 0 - 1)
     \/ (i.op = "TRUNCDIV") /\ ~RightLocIsConstant(i)
     \/ (i.op = "MOD") /\ zero_check

(***************************************************************************)
(* The instructions lowered: every shape MakeLocationSummary admits, with  *)
(* every pair of Smi operands the ranges allow.                            *)
(***************************************************************************)
SmiWords == {SmiRawValue(v) : v \in SmiValue}
BinaryOps == {"ADD", "SUB", "MUL", "TRUNCDIV", "MOD", "SHL"}
RightRangeKinds == {"null", "exact", "negative", "positive", "shift", "natural"}
RightRange(kind, r) ==
  CASE kind = "null" -> NullRange
    [] kind = "exact" -> Range(SmiUntag(r), SmiUntag(r))
    [] kind = "negative" -> Range(kSmiMin, 0 - 1)
    [] kind = "positive" -> Range(1, kSmiMax)
    [] kind = "shift" -> Range(0, kSmiBits - 1)
    [] kind = "natural" -> Range(0, kSmiMax)
JavascriptConfigs ==
  {[flag |-> FALSE, range |-> Range(kSmiMin, kSmiMax)],
   [flag |-> TRUE, range |-> Range(kSmiMin, kSmiMax)],
   [flag |-> TRUE,
    range |-> Range(0 - kJavascriptIntLimit, kJavascriptIntLimit)]}

BinarySmiOpShapes ==
  {c \in [op : BinaryOps, right_is_constant : BOOLEAN,
          left_is_constant : BOOLEAN, is_truncating : BOOLEAN,
          can_deopt : BOOLEAN] :
     /\ c.is_truncating => (c.op = "SHL")
     /\ c.left_is_constant =>
          ((c.op = "SHL") /\ ~c.right_is_constant /\ ~c.is_truncating)}

MakeBinarySmiOp(c, l, r, rr, js) ==
  [tag |-> "BinarySmiOp", op |-> c.op, left |-> l, right |-> r,
   right_is_constant |-> c.right_is_constant,
   left_is_constant |-> c.left_is_constant,
   is_truncating |-> c.is_truncating, can_deopt |-> c.can_deopt,
   right_range |-> RightRange(rr, r),
   throw_on_javascript_int_overflow |-> js.flag, range |-> js.range]

\* The range of a constant is that constant; ADD, SUB and MUL read no range.
RangeAdmitted(op, rc, rr, r) ==
  /\ (op \in {"ADD", "SUB", "MUL"}) => rr.null
  /\ rc => (rr.null \/ (rr = RightRange("exact", r)))
  /\ ~rc => (rr # RightRange("exact", r))

BinarySmiOpWellFormed(i) ==
  /\ RangeAdmitted(i.op, i.right_is_constant, i.right_range, i.right)
  /\ InRange(i.right_range, SmiUntag(i.right))
  /\ NeedsDeoptLabel(i) => i.can_deopt

MakeMergedMath(l, r, rr) ==
  [tag |-> "MergedMath", op |-> "TRUNCDIVMOD", left |-> l, right |-> r,
   right_range |-> RightRange(rr, r)]

(***************************************************************************)
(* Smi arithmetic: one instruction is lowered and its code is run once.    *)
(***************************************************************************)
InitSmi ==
  /\ out = NoOut
  /\ field = NoField
  /\ snapshots = NoSnapshots
  /\ \/ \E c \in BinarySmiOpShapes, l \in SmiWords, r \in SmiWords,
            rr \in RightRangeKinds, js \in JavascriptConfigs :
          /\ BinarySmiOpWellFormed(MakeBinarySmiOp(c, l, r, rr, js))
          /\ instr = MakeBinarySmiOp(c, l, r, rr, js)
     \/ \E l \in SmiWords, r \in SmiWords, rr \in RightRangeKinds \ {"exact"} :
          /\ InRange(RightRange(rr, r), SmiUntag(r))
          /\ instr = MakeMergedMath(l, r, rr)

EmitBinarySmiOp ==
  /\ out = NoOut
  /\ instr.tag = "BinarySmiOp"
  /\ out' = BinarySmiOpInstr_EmitNativeCode(instr)
  /\ UNCHANGED <<instr, field, snapshots>>

EmitMergedMath ==
  /\ out = NoOut
  /\ instr.tag = "MergedMath"
  /\ out' = MergedMathInstr_EmitNativeCode(instr)
  /\ UNCHANGED <<instr, field, snapshots>>

NextSmi == EmitBinarySmiOp \/ EmitMergedMath

SpecSmi == InitSmi /\ [][NextSmi]_vars


(***************************************************************************)
(* Properties of the Smi arithmetic lowerings (checked under SpecSmi).     *)
(***************************************************************************)
Ran == out.kind # "none"
IsBinarySmiOp(ops) == (instr.tag = "BinarySmiOp") /\ (instr.op \in ops)
IsMergedMath == instr.tag = "MergedMath"
LeftValue == SmiUntag(instr.left)
RightValue == SmiUntag(instr.right)

ExactArith(op, x, y) ==
  CASE op = "ADD" -> x + y
    [] op = "SUB" -> x - y
    [] op = "MUL" -> x * y

\* C1: checked ADD, SUB and MUL (right operand a constant or in a register)
\* either leave the tagged encoding of the exact mathematical result or
\* branch to the deopt guard; a wrapped value is never left as the result.
C1_CheckedArithExactOrGuard ==
  (IsBinarySmiOp({"ADD", "SUB", "MUL"}) /\ instr.can_deopt /\ Ran) =>
    \/ out.kind = "deopt"
    \/ out.result = 2 * ExactArith(instr.op, LeftValue, RightValue)

\* A checked multiplication whose product is no Smi took the guard.
C1_Witness ==
  /\ IsBinarySmiOp({"MUL"}) /\ instr.can_deopt /\ Ran
  /\ ~instr.throw_on_javascript_int_overflow
  /\ LeftValue * RightValue > kSmiMax
  /\ out.kind = "deopt"

\* The quotient BinarySmiOp TRUNCDIV leaves for the operands of instr.
TruncDivOf(i) ==
  BinarySmiOpInstr_EmitNativeCode(
    [i EXCEPT !.op = "TRUNCDIV", !.can_deopt = TRUE])

\* C2 as stated: whenever no guard is taken, dividend == divisor*q + r with
\* r non-negative, for MergedMath kTruncDivMod and for TRUNCDIV with MOD.
C2_Original ==
  /\ (IsMergedMath /\ Ran /\ (out.kind = "done") /\ (RightValue # 0)) =>
        /\ LeftValue = RightValue * SmiUntag(out.result_div)
                         + SmiUntag(out.result_mod)
        /\ SmiUntag(out.result_mod) >= 0
  /\ (IsBinarySmiOp({"MOD"}) /\ Ran /\ (out.kind = "done")
        /\ (RightValue # 0) /\ (TruncDivOf(instr).kind = "done")) =>
        /\ LeftValue = RightValue * SmiUntag(TruncDivOf(instr).result)
                         + SmiUntag(out.result)
        /\ SmiUntag(out.result) >= 0

\* q is the quotient rounded toward zero and r the non-negative remainder:
\* the identity holds when dividend - divisor*q is non-negative, and
\* otherwise r is that (negative) difference plus |divisor|.
QuotRemLaw(d, v, q, r) ==
  /\ r >= 0
  /\ r < Abs(v)
  /\ (d - v * q >= 0) => (d = v * q + r)
  /\ (d - v * q < 0) => (d = v * q + r - Abs(v))

\* C2 (amended): whenever no guard is taken, r is non-negative and below
\* |divisor|; dividend == divisor*q + r holds when dividend - divisor*q >= 0
\* and dividend == divisor*q + r - |divisor| otherwise.
C2_QuotientRemainder ==
  /\ (IsMergedMath /\ Ran /\ (out.kind = "done") /\ (RightValue # 0)) =>
        QuotRemLaw(LeftValue, RightValue, SmiUntag(out.result_div),
                   SmiUntag(out.result_mod))
  /\ (IsBinarySmiOp({"MOD"}) /\ Ran /\ (out.kind = "done")
        /\ (RightValue # 0) /\ (TruncDivOf(instr).kind = "done")) =>
        QuotRemLaw(LeftValue, RightValue, SmiUntag(TruncDivOf(instr).result),
                   SmiUntag(out.result))

\* MergedMath divided a negative dividend that the divisor does not divide:
\* the remainder was corrected to a non-negative one.
C2_Witness ==
  /\ IsMergedMath /\ Ran /\ (out.kind = "done")
  /\ LeftValue < 0
  /\ LeftValue - RightValue * SmiUntag(out.result_div) < 0
  /\ SmiUntag(out.result_mod) > 0

\* C3: with the divisor in a register, a run-time divisor of zero branches
\* to the guard before sdiv; sdiv is never executed with a zero divisor.
C3_ZeroDivisorGuarded ==
  /\ ((IsMergedMath \/ (IsBinarySmiOp({"TRUNCDIV", "MOD"})
                          /\ ~RightLocIsConstant(instr)))
        /\ Ran /\ (RightValue = 0)) =>
        ((out.kind = "deopt") /\ ~out.sdiv.executed)
  /\ ((IsMergedMath \/ IsBinarySmiOp({"TRUNCDIV", "MOD"})) /\ Ran
        /\ out.sdiv.executed) => (out.sdiv.divisor # 0)

\* A zero divisor reached MOD in a register whose range includes zero.
C3_Witness ==
  /\ IsBinarySmiOp({"MOD"}) /\ Ran
  /\ RightValue = 0
  /\ ~instr.right_range.null
  /\ out.kind = "deopt"


IsDivisionByMinusOne ==
  /\ IsMergedMath \/ IsBinarySmiOp({"TRUNCDIV"})
  /\ Ran
  /\ RightValue = 0 - 1

Quotient == IF IsMergedMath THEN out.result_div ELSE out.result

\* C4 as stated: the minimum Smi divided by -1 takes the guard in all three
\* lowerings; every other dividend divided by -1 takes no guard and leaves
\* the tagged negation.
C4_Original ==
  IsDivisionByMinusOne =>
    IF LeftValue = kSmiMin
    THEN out.kind = "deopt"
    ELSE (out.kind = "done") /\ (Quotient = 0 - instr.left)

\* The guard of EmitJavascriptOverflowCheck is emitted and taken for the
\* tagged result r.
JavascriptGuardTaken(i, r) ==
  /\ i.tag = "BinarySmiOp"
  /\ i.throw_on_javascript_int_overflow
  /\ ~IsWithin(i.range, 0 - kJavascriptIntLimit, kJavascriptIntLimit)
  /\ (r < 0 - kJavascriptIntLimit) \/ (r > kJavascriptIntLimit)

\* C4 (amended): the minimum Smi divided by -1 takes the guard in all three
\* lowerings; every other dividend divided by -1 leaves the tagged negation
\* and takes no guard, except that BinarySmiOp under
\* FLAG_throw_on_javascript_int_overflow takes the guard when the tagged
\* negation lies outside the JavaScript integer range it checks.
C4_MinSmiByMinusOne ==
  IsDivisionByMinusOne =>
    IF LeftValue = kSmiMin
    THEN out.kind = "deopt"
    ELSE IF JavascriptGuardTaken(instr, 0 - instr.left)
         THEN out.kind = "deopt"
         ELSE (out.kind = "done") /\ (Quotient = 0 - instr.left)

\* The minimum Smi was divided by the constant -1 and the guard was taken
\* with the JavaScript check switched off.
C4_Witness ==
  /\ IsBinarySmiOp({"TRUNCDIV"}) /\ Ran
  /\ RightLocIsConstant(instr)
  /\ RightValue = 0 - 1
  /\ LeftValue = kSmiMin
  /\ ~instr.throw_on_javascript_int_overflow
  /\ out.kind = "deopt"

\* C5 as stated: truncating SHL by a non-negative amount s, constant or in
\* a register, leaves x * 2^s reduced to the tagged word and takes no
\* guard.  (Stated with the JavaScript check switched off.)
C5_Original ==
  (IsBinarySmiOp({"SHL"}) /\ instr.is_truncating /\ Ran
     /\ (RightValue >= 0) /\ ~instr.throw_on_javascript_int_overflow) =>
    /\ out.kind = "done"
    /\ out.result = Wrap(instr.left * Pow2(RightValue))


(***************************************************************************)
(* CheckArrayBoundInstr::EmitNativeCode.  code lists the instructions      *)
(* emitted; kind tells whether running them branched to the deopt stub.    *)
(***************************************************************************)
\* b(deopt, LS) after CompareImmediate(length, index).
IndexConstantCondition_Lower == "CC"
IndexConstantCondition == "LS"
\* b(deopt, CS) after CompareImmediate(index, length) / CompareRegisters.
IndexRegisterCondition == "CS"

CheckArrayBoundInstr_EmitNativeCode(i) ==
  IF i.length_is_constant /\ i.index_is_constant
  THEN IF (SmiUntag(i.length) > SmiUntag(i.index)) /\ (SmiUntag(i.index) >= 0)
       THEN [kind |-> "done", code |-> << >>]
       ELSE [kind |-> "deopt", code |-> <<"b">>]
  ELSE IF i.index_is_constant
       THEN [kind |-> IF Holds(IndexConstantCondition,
                               SubFlags(i.length, i.index))
                      THEN "deopt" ELSE "done",
             code |-> <<"cmp", "b.cond">>]
       ELSE [kind |-> IF Holds(IndexRegisterCondition,
                               SubFlags(i.index, i.length))
                      THEN "deopt" ELSE "done",
             code |-> <<"cmp", "b.cond">>]

\* Array and typed-data lengths are non-negative Smis.
ArrayLengthWords == {SmiRawValue(v) : v \in 0..kSmiMax}

InitBound ==
  /\ out = NoOut
  /\ field = NoField
  /\ snapshots = NoSnapshots
  /\ \E len \in ArrayLengthWords, idx \in SmiWords,
        lc \in BOOLEAN, ic \in BOOLEAN :
       instr = [tag |-> "CheckArrayBound", length |-> len, index |-> idx,
                length_is_constant |-> lc, index_is_constant |-> ic]

EmitCheckArrayBound ==
  /\ out = NoOut
  /\ instr.tag = "CheckArrayBound"
  /\ out' = CheckArrayBoundInstr_EmitNativeCode(instr)
  /\ UNCHANGED <<instr, field, snapshots>>

NextBound == EmitCheckArrayBound

SpecBound == InitBound /\ [][NextBound]_vars

\* C6: CheckArrayBound branches to its deopt guard if and only if the index
\* is outside [0, length), in every operand form; with both operands
\* constant it emits nothing when in bounds and one unconditional branch to
\* the guard otherwise.
C6_BoundsGuardIffOutOfRange ==
  ((instr.tag = "CheckArrayBound") /\ Ran) =>
    /\ (out.kind = "deopt") <=>
         ~((0 <= SmiUntag(instr.index))
             /\ (SmiUntag(instr.index) < SmiUntag(instr.length)))
    /\ (instr.length_is_constant /\ instr.index_is_constant) =>
         (out.code = IF out.kind = "deopt" THEN <<"b">> ELSE << >>)

\* A constant index equal to the length in a register took the guard.
C6_Witness ==
  /\ instr.tag = "CheckArrayBound" /\ Ran
  /\ instr.index_is_constant /\ ~instr.length_is_constant
  /\ instr.index = instr.length
  /\ out.kind = "deopt"


(***************************************************************************)
(* Emitted control flow.  The code of a comparison is a sequence of        *)
(* instructions; a compare is recorded with the flags it sets for the      *)
(* run-time operands, a branch with its condition and target label.        *)
(* Labels bound inside the sequence are local; any other label belongs to  *)
(* a block or stub outside it.                                             *)
(***************************************************************************)
NoFlags == [n |-> FALSE, z |-> FALSE, c |-> FALSE, v |-> FALSE]
SetFlags(f) == [op |-> "cmp", cond |-> "AL", target |-> "", flags |-> f]
Branch(label, cond) ==
  [op |-> "b", cond |-> cond, target |-> label, flags |-> NoFlags]
Jump(label) == Branch(label, "AL")
Bind(label) == [op |-> "bind", cond |-> "AL", target |-> label, flags |-> NoFlags]
LoadObject(bool) ==
  [op |-> "load", cond |-> "AL", target |-> bool, flags |-> NoFlags]

IsBound(code, label) ==
  \E k \in 1..Len(code) : (code[k].op = "bind") /\ (code[k].target = label)
BoundAt(code, label) ==
  CHOOSE k \in 1..Len(code) : (code[k].op = "bind") /\ (code[k].target = label)

\* Runs code from position pc.  exit is the external label control left to,
\* or "end" when it ran off the end of the sequence; result is the object
\* last loaded into the result register.
RECURSIVE Run(_, _, _, _)
Run(code, pc, flags, result) ==
  IF pc > Len(code) THEN [exit |-> "end", result |-> result]
  ELSE LET ins == code[pc]
       IN CASE ins.op = "cmp" -> Run(code, pc + 1, ins.flags, result)
            [] ins.op = "bind" -> Run(code, pc + 1, flags, result)
            [] ins.op = "load" -> Run(code, pc + 1, flags, ins.target)
            [] ins.op = "b" ->
                 IF (ins.cond = "AL") \/ Holds(ins.cond, flags)
                 THEN IF IsBound(code, ins.target)
                      THEN Run(code, BoundAt(code, ins.target) + 1, flags,
                               result)
                      ELSE [exit |-> ins.target, result |-> result]
                 ELSE Run(code, pc + 1, flags, result)

Execute(code) == Run(code, 1, NoFlags, "unset")

NegateCondition_LowerOrSame(condition) ==
  CASE condition = "EQ" -> "NE"
    [] condition = "NE" -> "EQ"
    [] condition = "LT" -> "GE"
    [] condition = "LE" -> "GT"
    [] condition = "GT" -> "LE"
    [] condition = "GE" -> "LT"
    [] condition = "CC" -> "CS"
    [] condition = "LS" -> "CS"
    [] condition = "HI" -> "LS"
    [] condition = "CS" -> "CC"

NegateCondition(condition) ==
  CASE condition = "EQ" -> "NE"
    [] condition = "NE" -> "EQ"
    [] condition = "LT" -> "GE"
    [] condition = "LE" -> "GT"
    [] condition = "GT" -> "LE"
    [] condition = "GE" -> "LT"
    [] condition = "CC" -> "CS"
    [] condition = "LS" -> "HI"
    [] condition = "HI" -> "LS"
    [] condition = "CS" -> "CC"

FlipCondition(condition) ==
  CASE condition = "EQ" -> "EQ"
    [] condition = "NE" -> "NE"
    [] condition = "LT" -> "GT"
    [] condition = "LE" -> "GE"
    [] condition = "GT" -> "LT"
    [] condition = "GE" -> "LE"
    [] condition = "CC" -> "HI"
    [] condition = "LS" -> "CS"
    [] condition = "HI" -> "CC"
    [] condition = "CS" -> "LS"

TokenKindToSmiCondition(kind) ==
  CASE kind = "kEQ" -> "EQ"
    [] kind = "kNE" -> "NE"
    [] kind = "kLT" -> "LT"
    [] kind = "kGT" -> "GT"
    [] kind = "kLTE" -> "LE"
    [] kind = "kGTE" -> "GE"

TokenKindToDoubleCondition(kind) ==
  CASE kind = "kEQ" -> "EQ"
    [] kind = "kNE" -> "NE"
    [] kind = "kLT" -> "LT"
    [] kind = "kGT" -> "GT"
    [] kind = "kLTE" -> "LE"
    [] kind = "kGTE" -> "GE"

BranchLabels(t, f, ft) == [true_label |-> t, false_label |-> f, fall_through |-> ft]

\* The branch to the false label taken on the condition for true.
EmitBranchOnCondition_NotNegated(true_condition, labels) ==
  IF labels.fall_through = labels.false_label
  THEN <<Branch(labels.true_label, true_condition)>>
  ELSE <<Branch(labels.false_label, true_condition)>>
       \o (IF labels.fall_through # labels.true_label
           THEN <<Jump(labels.true_label)>>
           ELSE << >>)
EmitBranchOnCondition(true_condition, labels) ==
  IF labels.fall_through = labels.false_label
  THEN <<Branch(labels.true_label, true_condition)>>
  ELSE <<Branch(labels.false_label, NegateCondition(true_condition))>>
       \o (IF labels.fall_through # labels.true_label
           THEN <<Jump(labels.true_label)>>
           ELSE << >>)


(***************************************************************************)
(* Class ids, numbered in the order of the class id enumeration.           *)
(***************************************************************************)
kIllegalCid == 0
kSmiCid == 1
kDoubleCid == 2
kArrayCid == 3
kImmutableArrayCid == 4
kTypedDataInt8ArrayCid == 5
kTypedDataInt32x4ArrayCid == 6
kNullCid == 7
kDynamicCid == 8

(***************************************************************************)
(* Unboxed doubles: NaN, or a signed magnitude (so that -0.0 and 0.0 are   *)
(* different values that compare equal).                                   *)
(***************************************************************************)
MaxDoubleMagnitude == 2
NaN == [nan |-> TRUE, neg |-> FALSE, mag |-> 0]
DoubleSamples ==
  {NaN} \cup {[nan |-> FALSE, neg |-> s, mag |-> m] :
                s \in BOOLEAN, m \in 0..MaxDoubleMagnitude}
DoubleValue(d) == IF d.neg THEN 0 - d.mag ELSE d.mag

\* fcmpd: NZCV is 0011 unordered, 0110 equal, 1000 less, 0010 greater.
fcmpd(l, r) ==
  IF l.nan \/ r.nan
  THEN [n |-> FALSE, z |-> FALSE, c |-> TRUE, v |-> TRUE]
  ELSE IF DoubleValue(l) = DoubleValue(r)
       THEN [n |-> FALSE, z |-> TRUE, c |-> TRUE, v |-> FALSE]
       ELSE IF DoubleValue(l) < DoubleValue(r)
            THEN [n |-> TRUE, z |-> FALSE, c |-> FALSE, v |-> FALSE]
            ELSE [n |-> FALSE, z |-> FALSE, c |-> TRUE, v |-> FALSE]

(***************************************************************************)
(* EmitComparisonCode: the compare emitted and the true condition.         *)
(***************************************************************************)
Comparison(code, cond) == [code |-> code, true_condition |-> cond]

EmitSmiComparisonOp(i) ==
  IF i.left_is_constant
  THEN Comparison(<<SetFlags(SubFlags(i.right, i.left))>>,
                  FlipCondition(TokenKindToSmiCondition(i.kind)))
  ELSE Comparison(<<SetFlags(SubFlags(i.left, i.right))>>,
                  TokenKindToSmiCondition(i.kind))

EmitDoubleComparisonOp(i) ==
  Comparison(<<SetFlags(fcmpd(i.left, i.right))>>,
             TokenKindToDoubleCondition(i.kind))

\* EqualityCompareInstr and RelationalOpInstr share this body.
EmitComparisonCode(i) ==
  IF i.operation_cid = kSmiCid
  THEN EmitSmiComparisonOp(i)
  ELSE EmitDoubleComparisonOp(i)

\* Special case for NaN comparison: b(false_label, VS) unless the relational
\* operator is !=.
NaNBranch_EqualityOnly(i, true_condition, labels) ==
  IF (i.operation_cid = kDoubleCid) /\ (true_condition = "EQ")
  THEN <<Branch(labels.false_label, "VS")>>
  ELSE << >>
NaNBranch(i, true_condition, labels) ==
  IF (i.operation_cid = kDoubleCid) /\ (true_condition # "NE")
  THEN <<Branch(labels.false_label, "VS")>>
  ELSE << >>

\* Bind(&is_false); LoadObject(False); b(&done); Bind(&is_true);
\* LoadObject(True); Bind(&done).
MaterializeBool ==
  <<Bind("is_false"), LoadObject("false"), Jump("done"),
    Bind("is_true"), LoadObject("true"), Bind("done")>>

LocalLabels == BranchLabels("is_true", "is_false", "is_false")
\* FlowGraphCompiler::CreateBranchLabels: the successors of the branch and
\* the block emitted next.
CreateBranchLabels(i) ==
  BranchLabels("true_block", "false_block", i.fall_through)

EqualityCompareInstr_EmitNativeCode(i) ==
  LET cmp == EmitComparisonCode(i)
  IN cmp.code \o NaNBranch(i, cmp.true_condition, LocalLabels)
       \o EmitBranchOnCondition(cmp.true_condition, LocalLabels)
       \o MaterializeBool

EqualityCompareInstr_EmitBranchCode(i) ==
  LET cmp == EmitComparisonCode(i)
  IN cmp.code \o NaNBranch(i, cmp.true_condition, CreateBranchLabels(i))
       \o EmitBranchOnCondition(cmp.true_condition, CreateBranchLabels(i))

RelationalOpInstr_EmitNativeCode(i) ==
  LET cmp == EmitComparisonCode(i)
  IN cmp.code \o NaNBranch(i, cmp.true_condition, LocalLabels)
       \o EmitBranchOnCondition(cmp.true_condition, LocalLabels)
       \o MaterializeBool

RelationalOpInstr_EmitBranchCode(i) ==
  LET cmp == EmitComparisonCode(i)
  IN cmp.code \o NaNBranch(i, cmp.true_condition, CreateBranchLabels(i))
       \o EmitBranchOnCondition(cmp.true_condition, CreateBranchLabels(i))

(***************************************************************************)
(* StrictCompareInstr.  EmitEqualityRegRegCompare / RegConstCompare leave  *)
(* EQ exactly when the operands are identical, or, with a number check,    *)
(* are boxed numbers of the same value.                                    *)
(***************************************************************************)
Identical(l, r, needs_number_check) ==
  \/ l.id = r.id
  \/ needs_number_check /\ (l.number # 0) /\ (l.number = r.number)

EmitEqualityCompare(l, r, needs_number_check) ==
  [NoFlags EXCEPT !.z = Identical(l, r, needs_number_check)]

StrictCompareInstr_EmitComparisonCode(i) ==
  Comparison(
    IF i.left_is_constant
    THEN <<SetFlags(EmitEqualityCompare(i.right, i.left, i.needs_number_check))>>
    ELSE <<SetFlags(EmitEqualityCompare(i.left, i.right, i.needs_number_check))>>,
    IF i.kind = "kEQ_STRICT" THEN "EQ" ELSE "NE")

StrictCompareInstr_EmitNativeCode(i) ==
  LET cmp == StrictCompareInstr_EmitComparisonCode(i)
  IN cmp.code \o EmitBranchOnCondition(cmp.true_condition, LocalLabels)
       \o MaterializeBool

StrictCompareInstr_EmitBranchCode(i) ==
  LET cmp == StrictCompareInstr_EmitComparisonCode(i)
  IN cmp.code
       \o EmitBranchOnCondition(cmp.true_condition, CreateBranchLabels(i))

(***************************************************************************)
(* TestCidsInstr.  cid_results is the flat array cid, result, cid, ...;    *)
(* value is the run-time operand: a Smi, or an object of class value.cid.  *)
(***************************************************************************)
TestCidsInstr_EmitComparisonCode(i, labels) ==
  LET data == i.cid_results
      true_result == IF i.kind = "kIS" THEN 1 ELSE 0
      Target(k) == IF data[k] = true_result
                   THEN labels.true_label ELSE labels.false_label
      pairs == Len(data) \div 2
      smi_test == <<SetFlags(TstSmiTagFlags(IF i.value.is_smi THEN 0 ELSE 1)),
                    Branch(Target(2), "EQ")>>
      cid_tests == [k \in 1..(2 * (pairs - 1)) |->
                      IF k % 2 = 1
                      THEN SetFlags(SubFlags(i.value.cid, data[k + 2]))
                      ELSE Branch(Target(k + 2), "EQ")]
      result == data[Len(data)] = true_result
      target == IF result THEN labels.false_label ELSE labels.true_label
      no_match == IF ~i.can_deopt
                  THEN IF target # labels.fall_through
                       THEN <<Jump(target)>> ELSE << >>
                  ELSE <<Jump("deopt")>>
  IN smi_test \o cid_tests \o no_match

TestCidsInstr_EmitBranchCode(i) ==
  TestCidsInstr_EmitComparisonCode(i, CreateBranchLabels(i))

TestCidsInstr_EmitNativeCode(i) ==
  TestCidsInstr_EmitComparisonCode(i, LocalLabels) \o MaterializeBool


(***************************************************************************)
(* Comparisons: one comparison is lowered both as a value-producing        *)
(* instruction and as the condition of a branch, and both codes are run    *)
(* on the same operands.                                                   *)
(***************************************************************************)
FallThroughs == {"true_block", "false_block", "next_block"}
ObjectSamples == {[id |-> k, number |-> n] : k \in 1..3, n \in 0..1}
TestedCids == <<kSmiCid, kDoubleCid, kArrayCid>>
CidResults(rs) ==
  [k \in 1..(2 * Len(rs)) |->
     IF k % 2 = 1 THEN TestedCids[(k + 1) \div 2] ELSE rs[k \div 2]]
ValueSamples ==
  {[is_smi |-> TRUE, cid |-> kSmiCid]}
    \cup {[is_smi |-> FALSE, cid |-> c] : c \in {kDoubleCid, kArrayCid, kNullCid}}

NoCmpOut == [kind |-> "none", value |-> "none", branch |-> "none"]

InitCmp ==
  /\ out = NoCmpOut
  /\ field = NoField
  /\ snapshots = NoSnapshots
  /\ \E ft \in FallThroughs :
       \/ \E k \in {"kEQ", "kNE", "kLT", "kGT", "kLTE", "kGTE"},
             l \in SmiWords, r \in SmiWords, lc \in BOOLEAN, rc \in BOOLEAN :
            /\ ~(lc /\ rc)
            /\ instr = [tag |-> IF k \in {"kEQ", "kNE"}
                                THEN "EqualityCompare" ELSE "RelationalOp",
                        kind |-> k, operation_cid |-> kSmiCid,
                        left |-> l, right |-> r, left_is_constant |-> lc,
                        right_is_constant |-> rc, fall_through |-> ft]
       \/ \E k \in {"kEQ", "kNE", "kLT", "kGT", "kLTE", "kGTE"},
             l \in DoubleSamples, r \in DoubleSamples :
            instr = [tag |-> IF k \in {"kEQ", "kNE"}
                             THEN "EqualityCompare" ELSE "RelationalOp",
                     kind |-> k, operation_cid |-> kDoubleCid,
                     left |-> l, right |-> r, left_is_constant |-> FALSE,
                     right_is_constant |-> FALSE, fall_through |-> ft]
       \/ \E k \in {"kEQ_STRICT", "kNE_STRICT"},
             l \in ObjectSamples, r \in ObjectSamples,
             lc \in BOOLEAN, rc \in BOOLEAN, nc \in BOOLEAN :
            /\ ~(lc /\ rc)
            /\ instr = [tag |-> "StrictCompare", kind |-> k,
                        left |-> l, right |-> r, left_is_constant |-> lc,
                        right_is_constant |-> rc, needs_number_check |-> nc,
                        fall_through |-> ft]
       \/ \E k \in {"kIS", "kISNOT"}, n \in 1..Len(TestedCids),
             v \in ValueSamples, cd \in BOOLEAN :
            \E rs \in [1..n -> {0, 1}] :
              instr = [tag |-> "TestCids", kind |-> k,
                       cid_results |-> CidResults(rs), value |-> v,
                       can_deopt |-> cd, fall_through |-> ft]

\* The boolean left in the result register, or the stub control left to.
ValueOf(code) ==
  IF Execute(code).exit = "end" THEN Execute(code).result
  ELSE Execute(code).exit

\* The block control reaches: running off the end reaches the next block.
SuccessorOf(code, i) ==
  IF Execute(code).exit = "end" THEN i.fall_through ELSE Execute(code).exit

RunValueForm(tag, code) ==
  /\ instr.tag = tag
  /\ out.value = "none"
  /\ out' = [out EXCEPT !.kind = "cmp", !.value = ValueOf(code)]
  /\ UNCHANGED <<instr, field, snapshots>>

RunBranchForm(tag, code) ==
  /\ instr.tag = tag
  /\ out.branch = "none"
  /\ out' = [out EXCEPT !.kind = "cmp", !.branch = SuccessorOf(code, instr)]
  /\ UNCHANGED <<instr, field, snapshots>>

EqualityCompareNative ==
  RunValueForm("EqualityCompare", EqualityCompareInstr_EmitNativeCode(instr))
EqualityCompareBranch ==
  RunBranchForm("EqualityCompare", EqualityCompareInstr_EmitBranchCode(instr))
RelationalOpNative ==
  RunValueForm("RelationalOp", RelationalOpInstr_EmitNativeCode(instr))
RelationalOpBranch ==
  RunBranchForm("RelationalOp", RelationalOpInstr_EmitBranchCode(instr))
StrictCompareNative ==
  RunValueForm("StrictCompare", StrictCompareInstr_EmitNativeCode(instr))
StrictCompareBranch ==
  RunBranchForm("StrictCompare", StrictCompareInstr_EmitBranchCode(instr))
TestCidsNative ==
  RunValueForm("TestCids", TestCidsInstr_EmitNativeCode(instr))
TestCidsBranch ==
  RunBranchForm("TestCids", TestCidsInstr_EmitBranchCode(instr))

NextCmp ==
  \/ EqualityCompareNative
  \/ EqualityCompareBranch
  \/ RelationalOpNative
  \/ RelationalOpBranch
  \/ StrictCompareNative
  \/ StrictCompareBranch
  \/ TestCidsNative
  \/ TestCidsBranch

SpecCmp == InitCmp /\ [][NextCmp]_vars

IsDoubleComparison ==
  /\ instr.tag \in {"EqualityCompare", "RelationalOp"}
  /\ instr.operation_cid = kDoubleCid

\* C9: a double comparison with a NaN operand evaluates to false for every
\* operator other than != (the value form writes false, the branch form
\* reaches the false successor) and to true for !=.
C9_NaNComparesFalse ==
  (IsDoubleComparison /\ (instr.left.nan \/ instr.right.nan)) =>
    /\ (out.value # "none") =>
         (out.value = IF instr.kind = "kNE" THEN "true" ELSE "false")
    /\ (out.branch # "none") =>
         (out.branch = IF instr.kind = "kNE"
                       THEN "true_block" ELSE "false_block")

\* x <= NaN was lowered in both forms and both evaluated to false.
C9_Witness ==
  /\ IsDoubleComparison
  /\ instr.kind = "kLTE"
  /\ instr.right.nan /\ ~instr.left.nan
  /\ out.value = "false"
  /\ out.branch = "false_block"

\* C10: for every operand valuation and every placement of the
\* fall-through block, the value form writes true if and only if the branch
\* form transfers control to the true successor.
C10_ValueAgreesWithBranch ==
  ((out.value # "none") /\ (out.branch # "none")) =>
    /\ (out.value = "true") <=> (out.branch = "true_block")
    /\ (out.value = "false") <=> (out.branch = "false_block")

\* A TestCids without deopt found no matching class id with the true
\* successor as the next block, and both forms gave true.
C10_Witness ==
  /\ instr.tag = "TestCids"
  /\ ~instr.can_deopt
  /\ instr.fall_through = "true_block"
  /\ ~instr.value.is_smi
  /\ instr.value.cid = kNullCid
  /\ out.value = "true"
  /\ out.branch = "true_block"


(***************************************************************************)
(* GuardFieldInstr.  A Field object carries three guard slots: the guarded *)
(* class id, the nullability slot (kNullCid when null is admitted) and the *)
(* guarded list length (a tagged Smi; negative when no length is tracked). *)
(* The stored value is a Smi or a heap object with a class id and, for     *)
(* arrays and typed data, a tagged length.                                 *)
(***************************************************************************)
MaxListLength == 1

kUnknownFixedLength == -1
kNoFixedLength == -2

\* A class id above every predefined one: an instance of a user class.
FirstUserCid == kDynamicCid + 1

IsArrayClassId(cid) == cid \in {kArrayCid, kImmutableArrayCid}
IsTypedDataClassId(cid) ==
  (cid >= kTypedDataInt8ArrayCid) /\ (cid <= kTypedDataInt32x4ArrayCid)

\* The compile-time view of the field the instruction reads at the top of
\* EmitNativeCode, and the tier and static value type it is emitted for.
MakeGuardField(f, is_optimizing, value_cid) ==
  [tag |-> "GuardField",
   is_optimizing |-> is_optimizing,
   field_cid |-> f.guarded_cid,
   nullability |-> IF f.is_nullable = kNullCid THEN kNullCid ELSE kIllegalCid,
   field_length |-> SmiUntag(f.guarded_list_length),
   field_has_length |-> SmiUntag(f.guarded_list_length) >= kUnknownFixedLength,
   value_cid |-> value_cid]

\* LoadValueCid: kSmiCid for a Smi, the object's class id otherwise.
LoadValueCid(v) == IF Holds("EQ", [NoFlags EXCEPT !.z = v.is_smi])
                   THEN kSmiCid ELSE v.cid

\* The runtime entry kUpdateFieldCid (Field::UpdateGuardedCidAndLength):
\* the first value fixes the guard, null makes the field nullable, a non-null
\* value after only nulls fixes the class, any other class gives up
\* (kDynamicCid); a list length that differs, or a guard that gave up on the
\* class, gives up on the length.
UpdateCid(f, cid) ==
  IF f.guarded_cid = kIllegalCid
  THEN [f EXCEPT !.guarded_cid = cid,
                 !.is_nullable = IF cid = kNullCid THEN kNullCid
                                 ELSE kIllegalCid]
  ELSE IF (cid = f.guarded_cid) \/
          ((cid = kNullCid) /\ (f.is_nullable = kNullCid))
  THEN f
  ELSE IF cid = kNullCid
  THEN [f EXCEPT !.is_nullable = kNullCid]
  ELSE IF f.guarded_cid = kNullCid
  THEN [f EXCEPT !.guarded_cid = cid, !.is_nullable = kNullCid]
  ELSE [f EXCEPT !.guarded_cid = kDynamicCid, !.is_nullable = kNullCid]

UpdateLength(f, v) ==
  LET list_length ==
        IF IsArrayClassId(v.cid) \/ IsTypedDataClassId(v.cid)
        THEN v.length ELSE SmiRawValue(kNoFixedLength)
  IN IF SmiUntag(f.guarded_list_length) < kUnknownFixedLength
     THEN f
     ELSE IF f.guarded_cid = kDynamicCid
     THEN [f EXCEPT !.guarded_list_length = SmiRawValue(kNoFixedLength)]
     ELSE IF SmiUntag(f.guarded_list_length) = kUnknownFixedLength
     THEN [f EXCEPT !.guarded_list_length = list_length]
     ELSE IF f.guarded_list_length = list_length
     THEN f
     ELSE [f EXCEPT !.guarded_list_length = SmiRawValue(kNoFixedLength)]

UpdateGuardedCidAndLength(f, v) ==
  UpdateLength(UpdateCid(f, IF v.is_smi THEN kSmiCid ELSE v.cid), v)

\* How the emitted code leaves: at the ok label, in the deopt stub, or
\* after the call of the runtime entry; with the field as it left it.
GuardOk(f) == [kind |-> "ok", field |-> f]
GuardDeopt(f) == [kind |-> "deopt", field |-> f]
GuardRuntime(f, v) ==
  [kind |-> "runtime", field |-> UpdateGuardedCidAndLength(f, v)]

\* b(&ok, EQ) of the fail path: a guard that gave up needs no update.
GuardGaveUp_Negated(f) == Holds("NE", SubFlags(f.guarded_cid, kDynamicCid))
GuardGaveUp(f) == Holds("EQ", SubFlags(f.guarded_cid, kDynamicCid))

\* The fail label: the deopt stub in optimized code, else the local label
\* that calls the runtime unless the guard already gave up.
GuardFail(i, f, v) ==
  IF i.is_optimizing THEN GuardDeopt(f)
  ELSE IF GuardGaveUp(f) THEN GuardOk(f)
  ELSE GuardRuntime(f, v)

\* The length check emitted when neither class nor length of the field was
\* known at compile time: where control goes from it.
RuntimeLengthCheck(i, f, v, value_cid_reg) ==
  LET compare == IF Holds("NE", SubFlags(v.length, f.guarded_list_length))
                 THEN "fail" ELSE "length_compared"
  IN IF Holds("LT", SubFlags(f.guarded_list_length, 0))
     THEN "skip_length_check"
     ELSE IF Holds("EQ", SubFlags(value_cid_reg, kNullCid))
     THEN "fail"
     ELSE IF Holds("GT", SubFlags(value_cid_reg, kTypedDataInt32x4ArrayCid))
     THEN "fail"
     ELSE IF Holds("LT", SubFlags(value_cid_reg, kTypedDataInt8ArrayCid))
     THEN IF Holds("GT", SubFlags(value_cid_reg, kImmutableArrayCid))
          THEN "fail"
          ELSE IF Holds("LT", SubFlags(value_cid_reg, kArrayCid))
          THEN "fail"
          ELSE compare
     ELSE compare

\* The check of a value whose class is not known statically, up to the
\* flags b(&ok, EQ) reads: fail is TRUE when control left for the fail label.
CheckDynamicValue(i, f, v) ==
  LET value_cid_reg == LoadValueCid(v)
      nullable == [fail |-> FALSE,
                   flags |-> SubFlags(value_cid_reg, f.is_nullable)]
      failed == [fail |-> TRUE, flags |-> NoFlags]
  IN IF Holds("NE", SubFlags(value_cid_reg, f.guarded_cid))
     THEN nullable
     ELSE IF ~i.field_has_length
     THEN nullable
     ELSE IF IsArrayClassId(i.field_cid) \/ IsTypedDataClassId(i.field_cid)
     THEN IF Holds("NE", SubFlags(v.length, SmiRawValue(i.field_length)))
          THEN failed ELSE nullable
     ELSE IF RuntimeLengthCheck(i, f, v, value_cid_reg) = "fail"
     THEN failed ELSE nullable

\* The check of a value statically known to be null.
CheckNullValue(i, f, v) ==
  [fail |-> FALSE, flags |-> SubFlags(f.is_nullable, i.value_cid)]

\* The check of a value whose class id is known statically.
CheckKnownValue(i, f, v) ==
  LET cid_flags == SubFlags(f.guarded_cid, i.value_cid)
      length_flags == SubFlags(v.length, SmiRawValue(i.field_length))
      failed == [fail |-> TRUE, flags |-> NoFlags]
  IN IF Holds("NE", cid_flags) \/ ~i.field_has_length
     THEN [fail |-> FALSE, flags |-> cid_flags]
     ELSE IF IsArrayClassId(i.value_cid) \/ IsTypedDataClassId(i.value_cid)
     THEN IF Holds("NE", length_flags)
          THEN failed ELSE [fail |-> FALSE, flags |-> length_flags]
     ELSE IF i.field_cid # kIllegalCid
     THEN failed
     ELSE [fail |-> FALSE, flags |-> cid_flags]


\* The length recorded on the first store of a value of unknown static
\* class: the value's own length for typed data and arrays, else none.
LearnedLength(v, value_cid_reg) ==
  IF Holds("EQ", SubFlags(value_cid_reg, kNullCid))
  THEN SmiRawValue(kNoFixedLength)
  ELSE IF Holds("GT", SubFlags(value_cid_reg, kTypedDataInt32x4ArrayCid))
  THEN SmiRawValue(kNoFixedLength)
  ELSE IF Holds("LT", SubFlags(value_cid_reg, kTypedDataInt8ArrayCid))
  THEN IF Holds("GT", SubFlags(value_cid_reg, kImmutableArrayCid))
       THEN SmiRawValue(kNoFixedLength)
       ELSE IF Holds("LT", SubFlags(value_cid_reg, kArrayCid))
       THEN SmiRawValue(kNoFixedLength)
       ELSE v.length
  ELSE v.length

\* The stores that record the first value in the guard slots.
LearnDynamicValue(i, f, v) ==
  LET value_cid_reg == LoadValueCid(v)
  IN [f EXCEPT !.guarded_cid = value_cid_reg,
               !.is_nullable = value_cid_reg,
               !.guarded_list_length =
                 IF i.field_has_length
                 THEN LearnedLength(v, value_cid_reg) ELSE @]

LearnKnownValue(i, f, v) ==
  [f EXCEPT !.guarded_cid = i.value_cid,
            !.is_nullable = i.value_cid,
            !.guarded_list_length =
              IF ~i.field_has_length THEN @
              ELSE IF IsArrayClassId(i.value_cid) \/
                      IsTypedDataClassId(i.value_cid)
              THEN v.length
              ELSE SmiRawValue(kNoFixedLength)]

\* CompareImmediate(TMP, kIllegalCid); b(fail, NE): only a field that has
\* seen no value yet is recorded into.
FieldIsUnconstrained_Dynamic(f) ==
  Holds("EQ", SubFlags(f.guarded_cid, kDynamicCid))
FieldIsUnconstrained(f) == Holds("EQ", SubFlags(f.guarded_cid, kIllegalCid))

\* Unoptimized code, and optimized code for a field that had no guarded class
\* at compile time: check against the slots, record the first value.
GuardFieldLearningPath(i, f, v) ==
  LET check == IF i.value_cid = kDynamicCid THEN CheckDynamicValue(i, f, v)
               ELSE IF i.value_cid = kNullCid THEN CheckNullValue(i, f, v)
               ELSE CheckKnownValue(i, f, v)
  IN IF check.fail
     THEN GuardFail(i, f, v)
     ELSE IF Holds("EQ", check.flags)
     THEN GuardOk(f)
     ELSE IF ~FieldIsUnconstrained(f)
     THEN GuardFail(i, f, v)
     ELSE IF i.value_cid = kDynamicCid
     THEN GuardOk(LearnDynamicValue(i, f, v))
     ELSE GuardOk(LearnKnownValue(i, f, v))

\* Optimized code, guarded class known, class of the value not known.
GuardFieldOptimizedDynamicValue(i, f, v) ==
  LET smi_flags == [NoFlags EXCEPT !.z = v.is_smi]
      class_flags == IF i.field_cid # kSmiCid
                     THEN SubFlags(v.cid, i.field_cid) ELSE smi_flags
      length_reg == IF IsArrayClassId(i.field_cid) \/
                       IsTypedDataClassId(i.field_cid)
                    THEN v.length ELSE v.cid
      flags == IF i.field_has_length
               THEN SubFlags(length_reg, f.guarded_list_length)
               ELSE class_flags
      null_flags == [NoFlags EXCEPT !.z = (~v.is_smi /\ v.cid = kNullCid)]
      nullable == (i.nullability = kNullCid) /\ (i.field_cid # kNullCid)
  IN IF (i.field_cid # kSmiCid) /\ Holds("EQ", smi_flags)
     THEN GuardDeopt(f)
     ELSE IF i.field_has_length /\ Holds("NE", class_flags)
     THEN GuardDeopt(f)
     ELSE IF nullable /\ Holds("EQ", flags)
     THEN GuardOk(f)
     ELSE IF Holds("NE", IF nullable THEN null_flags ELSE flags)
     THEN GuardDeopt(f)
     ELSE GuardOk(f)

\* Optimized code, guarded class and class of the value both known.
GuardFieldOptimizedKnownValue(i, f, v) ==
  IF (i.value_cid # i.field_cid) /\ (i.value_cid # i.nullability)
  THEN GuardDeopt(f)
  ELSE IF Holds("NE", SubFlags(v.length, i.field_length))
  THEN GuardDeopt(f)
  ELSE GuardOk(f)

\* Running the code GuardFieldInstr::EmitNativeCode emits for instruction i
\* with the field slots f and the value v.
GuardFieldInstr_EmitNativeCode(i, f, v) ==
  IF i.field_cid = kDynamicCid
  THEN GuardOk(f)
  ELSE IF ~i.is_optimizing \/ (i.field_cid = kIllegalCid)
  THEN GuardFieldLearningPath(i, f, v)
  ELSE IF i.value_cid = kDynamicCid
  THEN GuardFieldOptimizedDynamicValue(i, f, v)
  ELSE GuardFieldOptimizedKnownValue(i, f, v)

\* What the assertions of EmitNativeCode require of the instruction: no
\* guard is left in optimized code for a field that gave up or for a value
\* the guard is statically known to admit, and only list classes remember
\* a length.
GuardFieldWellFormed(i) ==
  /\ (i.field_cid = kDynamicCid) => ~i.is_optimizing
  /\ i.field_has_length =>
       \/ i.field_cid = kIllegalCid
       \/ IsArrayClassId(i.field_cid)
       \/ IsTypedDataClassId(i.field_cid)
  /\ (i.is_optimizing /\ (i.field_cid # kIllegalCid) /\
      (i.value_cid # kDynamicCid)) =>
       \/ (i.value_cid # i.field_cid) /\ (i.value_cid # i.nullability)
       \/ i.field_has_length /\ (i.value_cid = i.field_cid)

(***************************************************************************)
(* The field guard as a state machine: a GuardField is compiled against    *)
(* the field as it is, and the compiled check then runs for store after    *)
(* store while the guard slots evolve.                                     *)
(***************************************************************************)
ListCids == {kArrayCid, kImmutableArrayCid, kTypedDataInt8ArrayCid,
             kTypedDataInt32x4ArrayCid}
PlainCids == {kDoubleCid, kNullCid, FirstUserCid}

GuardedValues ==
  {[is_smi |-> TRUE, cid |-> kSmiCid, length |-> 0]}
  \cup {[is_smi |-> FALSE, cid |-> c, length |-> 0] : c \in PlainCids}
  \cup {[is_smi |-> FALSE, cid |-> c, length |-> SmiRawValue(n)] :
          c \in ListCids, n \in 0..MaxListLength}

StaticCids == {kDynamicCid, kSmiCid} \cup PlainCids \cup ListCids

\* A field no value was stored to yet; only final fields remember a length.
NewField(is_final) ==
  [guarded_cid |-> kIllegalCid,
   is_nullable |-> kIllegalCid,
   guarded_list_length |-> IF is_final THEN SmiRawValue(kUnknownFixedLength)
                           ELSE SmiRawValue(kNoFixedLength),
   is_final |-> is_final]

NoGuardField == [tag |-> "none"]

InitGuard ==
  /\ instr = NoGuardField
  /\ out = NoOut
  /\ \E is_final \in BOOLEAN : field = NewField(is_final)
  /\ snapshots = [unoptimized |-> {field}, optimized |-> {field}]

\* The next store runs a GuardField that was compiled against the field as
\* it is or as it was: unoptimized code is never discarded, optimized code
\* that depends on the guard is discarded when the runtime changes the guard.
CompileGuardField ==
  \E is_optimizing \in BOOLEAN, value_cid \in StaticCids :
    \E f \in IF is_optimizing THEN snapshots.optimized
              ELSE snapshots.unoptimized :
      /\ GuardFieldWellFormed(MakeGuardField(f, is_optimizing, value_cid))
      /\ instr' = MakeGuardField(f, is_optimizing, value_cid)
      /\ out' = NoOut
      /\ UNCHANGED <<field, snapshots>>

\* The states of the field that installed code may have been compiled against
\* after a store with outcome r changed the field from f.
Recompiled(r, f) ==
  [unoptimized |-> snapshots.unoptimized \cup {r.field},
   optimized |-> IF (r.kind = "runtime") /\ (r.field # f)
                 THEN {r.field}
                 ELSE snapshots.optimized \cup {r.field}]

GuardedStore ==
  \E v \in GuardedValues :
    /\ instr.tag = "GuardField"
    /\ (instr.value_cid # kDynamicCid) => (v.cid = instr.value_cid)
    /\ LET r == GuardFieldInstr_EmitNativeCode(instr, field, v)
       IN /\ out' = [kind |-> r.kind, value |-> v, before |-> field]
          /\ field' = r.field
          /\ snapshots' = Recompiled(r, field)
    /\ UNCHANGED instr

NextGuard ==
  \/ CompileGuardField
  \/ GuardedStore

SpecGuard == InitGuard /\ [][NextGuard]_vars

IsGuardedStore == (instr.tag = "GuardField") /\ (out.kind # "none")

\* C7: in unoptimized code, the store of a non-null value of class A to a
\* field whose guarded class id was kIllegalCid leaves A in the guarded
\* class id and in the nullability slot and continues at the ok label
\* without a call of the runtime updater.
C7_FirstStoreRecordsClass ==
  (/\ IsGuardedStore
   /\ ~instr.is_optimizing
   /\ out.before.guarded_cid = kIllegalCid
   /\ out.value.cid # kNullCid) =>
    /\ out.kind = "ok"
    /\ field.guarded_cid = out.value.cid
    /\ field.is_nullable = out.value.cid

\* An array was the first value stored to a final field from unoptimized
\* code, and the guard now records kArrayCid.
C7_Witness ==
  /\ IsGuardedStore
  /\ ~instr.is_optimizing
  /\ out.before = NewField(TRUE)
  /\ out.value.cid = kArrayCid
  /\ out.kind = "ok"
  /\ field.guarded_cid = kArrayCid

\* C8: when the guard records a class A (neither kIllegalCid nor
\* kDynamicCid), the store of a non-null value of another class B does not
\* reach the ok label: unoptimized code calls the runtime updater, optimized
\* code branches to the deopt stub.
C8_MismatchNeverSilent ==
  (/\ IsGuardedStore
   /\ out.before.guarded_cid \notin {kIllegalCid, kDynamicCid}
   /\ out.value.cid # kNullCid
   /\ out.value.cid # out.before.guarded_cid) =>
    out.kind = IF instr.is_optimizing THEN "deopt" ELSE "runtime"

\* A double was stored from optimized code to a field guarded for Smi
\* (deopt), and from unoptimized code (runtime updater).
C8_Witness ==
  /\ IsGuardedStore
  /\ out.before.guarded_cid = kSmiCid
  /\ out.value.cid = kDoubleCid
  /\ instr.is_optimizing
  /\ instr.field_cid = kSmiCid
  /\ out.kind = "deopt"

(***************************************************************************)
(* StoreIndexedInstr into a clamped unsigned-byte buffer.  The source is   *)
(* a Smi, a constant or in a register; untagged it is far from the ends of *)
(* the 64-bit register, so the compare with 0xFF cannot overflow.          *)
(***************************************************************************)
MaxClampedSource == 300

kMaxUint8 == 255

\* static_cast<int8_t>: the low eight bits read as a signed number.
Int8Cast(v) == ((v + 128) % 256) - 128
\* str with kUnsignedByte: the low eight bits of the register are stored.
StoreUnsignedByte(w) == w % 256
\* CompareImmediate(value, imm) for an untagged Smi and a small immediate.
CompareSmallImmediate(value, imm) ==
  [n |-> value - imm < 0, z |-> value = imm,
   c |-> (value < 0) \/ (value >= imm), v |-> FALSE]
csel(rn, rm, cond, flags) == IF Holds(cond, flags) THEN rn ELSE rm

\* b(&store_value, LS): a value within 0..0xFF is stored as it is.
ClampSkipCondition_Signed == "LE"
ClampSkipCondition == "LS"

StoreIndexedClampedConstant(i) ==
  LET value == SmiUntag(i.value)
      clamped == IF value > kMaxUint8 THEN kMaxUint8
                 ELSE IF value < 0 THEN 0 ELSE value
  IN StoreUnsignedByte(Int8Cast(clamped))

StoreIndexedClampedRegister(i) ==
  LET value == SmiUntag(i.value)
      flags == CompareSmallImmediate(value, kMaxUint8)
      low == csel(0, value, "LE", flags)
      high == csel(kMaxUint8, low, "GT", flags)
  IN IF Holds(ClampSkipCondition, flags)
     THEN StoreUnsignedByte(value)
     ELSE StoreUnsignedByte(high)

\* The byte StoreIndexedInstr::EmitNativeCode leaves in the element.
StoreIndexedInstr_EmitNativeCode(i) ==
  IF i.value_is_constant THEN StoreIndexedClampedConstant(i)
  ELSE StoreIndexedClampedRegister(i)

ClampedCids == {"kTypedDataUint8ClampedArrayCid",
                "kExternalTypedDataUint8ClampedArrayCid"}

InitStore ==
  /\ out = NoOut
  /\ field = NoField
  /\ snapshots = NoSnapshots
  /\ \E cid \in ClampedCids, c \in BOOLEAN,
        v \in (0 - MaxClampedSource)..MaxClampedSource :
       instr = [tag |-> "StoreIndexed", class_id |-> cid,
                value_is_constant |-> c, value |-> SmiRawValue(v)]

EmitStoreIndexed ==
  /\ instr.tag = "StoreIndexed"
  /\ out = NoOut
  /\ out' = [kind |-> "stored", byte |-> StoreIndexedInstr_EmitNativeCode(instr)]
  /\ UNCHANGED <<instr, field, snapshots>>

NextStore == EmitStoreIndexed

SpecStore == InitStore /\ [][NextStore]_vars

ClampToByte(v) == IF v < 0 THEN 0 ELSE IF v > 255 THEN 255 ELSE v

\* C11: a store into a clamped unsigned-byte buffer stores
\* min(max(v, 0), 255) for every Smi source v, constant or in a register.
C11_ClampedStore ==
  ((instr.tag = "StoreIndexed") /\ (out.kind = "stored")) =>
    out.byte = ClampToByte(SmiUntag(instr.value))

\* 300 was stored from a register and the byte is 255.
C11_Witness ==
  /\ instr.tag = "StoreIndexed"
  /\ ~instr.value_is_constant
  /\ SmiUntag(instr.value) = 300
  /\ out.kind = "stored"
  /\ out.byte = 255


(***************************************************************************)
(* Register machine for instructions with slow paths.  A register holds a  *)
(* record: an unboxed double, a pointer to a box, a value that is live     *)
(* across the instruction, or junk.  The heap maps a box to its payload.   *)
(* A call preserves no allocatable register and returns its result in R0.  *)
(***************************************************************************)
CpuRegisters == {"R0", "R1", "R2", "R3"}
FpuRegisters == {"V0", "V1"}
Junk == [kind |-> "junk"]
LiveValue(r) == [kind |-> "live", reg |-> r]
BoxPointer(id) == [kind |-> "box", id |-> id]
UnboxedDouble(d) == [kind |-> "double", bits |-> d]
NullObject == [kind |-> "null"]

SaveLiveRegisters(locs) == [op |-> "save", regs |-> locs.live_registers]
RestoreLiveRegisters(locs) == [op |-> "restore", regs |-> locs.live_registers]
GenerateCall(stub) == [op |-> "call", stub |-> stub]
mov(rd, rn) == [op |-> "mov", rd |-> rd, rn |-> rn]
TryAllocate(cls, failure, instance_reg, temp_reg) ==
  [op |-> "TryAllocate", cls |-> cls, failure |-> failure,
   rd |-> instance_reg, temp |-> temp_reg]
StoreDFieldToOffset(vn, base) == [op |-> "fstrd", vn |-> vn, rn |-> base]
LoadDFieldFromOffset(vd, base) == [op |-> "fldrd", vd |-> vd, rn |-> base]
EndOfInstruction == [op |-> "end"]

\* The effect of one straight-line instruction on the machine.
Effect(ins, m) ==
  CASE ins.op = "save" ->
         [m EXCEPT !.saved = [r \in ins.regs |-> m.regs[r]]]
    [] ins.op = "restore" ->
         [m EXCEPT !.regs = [r \in DOMAIN m.regs |->
                               IF r \in ins.regs THEN m.saved[r]
                               ELSE m.regs[r]]]
    [] ins.op = "call" ->
         [m EXCEPT !.regs = [r \in DOMAIN m.regs |->
                               IF r = "R0" THEN BoxPointer("new") ELSE Junk],
                   !.calls = @ + 1]
    [] ins.op = "mov" -> [m EXCEPT !.regs[ins.rd] = m.regs[ins.rn]]
    [] ins.op \in {"fstrd", "fstrq"} ->
         IF m.regs[ins.rn].kind = "box"
         THEN [m EXCEPT !.heap[m.regs[ins.rn].id] = m.regs[ins.vn]]
         ELSE [m EXCEPT !.wild = TRUE]
    [] ins.op \in {"fldrd", "fldrq"} ->
         IF m.regs[ins.rn].kind = "box"
         THEN [m EXCEPT !.regs[ins.vd] = m.heap[m.regs[ins.rn].id]]
         ELSE [m EXCEPT !.regs[ins.vd] = Junk, !.wild = TRUE]
    [] ins.op = "LoadObject" -> [m EXCEPT !.regs[ins.rd] = ins.object]
    [] ins.op = "ldr_guard" ->
         [m EXCEPT !.regs[ins.rd] =
            IF m.regs[ins.rn].kind = "field"
            THEN [kind |-> "word", value |-> m.guard[ins.slot]] ELSE Junk]
    [] ins.op = "cmp_imm" ->
         [m EXCEPT !.eq = (m.regs[ins.rn] =
                             [kind |-> "word", value |-> ins.imm])]
    [] ins.op = "tsti" ->
         [m EXCEPT !.eq = (m.regs[ins.rn] = [kind |-> "word", value |-> 0])
                             \/ (m.regs[ins.rn].kind = "smi")]
    [] ins.op = "cmp_cid" -> [m EXCEPT !.eq = (m.regs[ins.rn].kind = "box")]
    [] ins.op = "scvtfd" -> [m EXCEPT !.regs[ins.vd] = [kind |-> "converted"]]
    [] ins.op = "cmp_null" -> [m EXCEPT !.eq = (m.regs[ins.rn].kind = "null")]
    [] ins.op = "ldr_slot" -> [m EXCEPT !.regs[ins.rd] = m.slot]
    [] ins.op = "str_slot" ->
         [m EXCEPT !.slot = IF ins.rm = "constant" THEN ins.constant
                            ELSE m.regs[ins.rm],
                   !.stores = Append(@, ins.barrier)]
    [] OTHER -> m

\* Runs emitted code from pc.  new_space_full tells whether an inline
\* allocation fails; a branch to a label bound nowhere in the code leaves it.
RECURSIVE RunMachine(_, _, _, _)
RunMachine(code, pc, m, new_space_full) ==
  IF pc > Len(code) THEN [m EXCEPT !.exit = "end"]
  ELSE LET ins == code[pc]
           goto(label) ==
             IF IsBound(code, label)
             THEN RunMachine(code, BoundAt(code, label) + 1, m, new_space_full)
             ELSE [m EXCEPT !.exit = label]
       IN CASE ins.op = "end" -> [m EXCEPT !.exit = "end"]
            [] ins.op = "b" ->
                 IF (ins.cond = "AL") \/ ((ins.cond = "EQ") = m.eq)
                 THEN goto(ins.target)
                 ELSE RunMachine(code, pc + 1, m, new_space_full)
            [] ins.op = "TryAllocate" ->
                 IF new_space_full
                 THEN RunMachine(code, BoundAt(code, ins.failure) + 1,
                        [m EXCEPT !.regs[ins.rd] = Junk,
                                  !.regs[ins.temp] = Junk],
                        new_space_full)
                 ELSE RunMachine(code, pc + 1,
                        [m EXCEPT !.regs[ins.rd] = BoxPointer("new"),
                                  !.regs[ins.temp] = Junk],
                        new_space_full)
            [] OTHER -> RunMachine(code, pc + 1, Effect(ins, m), new_space_full)

\* What an instruction's EmitNativeCode leaves behind: its inline code, the
\* code of the slow paths it registered (emitted after the function body),
\* the summary as emission left it, and the registers the code names.
RunEmitted(e, m, new_space_full) ==
  RunMachine(e.fast \o <<EndOfInstruction>> \o e.slow, 1, m, new_space_full)

(***************************************************************************)
(* BoxDouble and its slow path; UnboxDouble.                               *)
(***************************************************************************)
RemoveOut_Kept(locs) == locs
RemoveOut_Temp(locs) ==
  [locs EXCEPT !.live_registers = @ \ {locs.temp0}]
RemoveOut(locs) ==
  [locs EXCEPT !.live_registers = @ \ {locs.out0}]

BoxDoubleSlowPath_EmitNativeCode_RestoreFirst(locs0) ==
  LET locs == RemoveOut(locs0)
  IN [code |-> <<Bind("entry"),
                 SaveLiveRegisters(locs),
                 GenerateCall("double_allocation"),
                 RestoreLiveRegisters(locs),
                 mov(locs.out0, "R0"),
                 Jump("exit")>>,
      locs |-> locs]

BoxDoubleSlowPath_EmitNativeCode(locs0) ==
  LET locs == RemoveOut(locs0)
  IN [code |-> <<Bind("entry"),
                 SaveLiveRegisters(locs),
                 GenerateCall("double_allocation"),
                 mov(locs.out0, "R0"),
                 RestoreLiveRegisters(locs),
                 Jump("exit")>>,
      locs |-> locs]

BoxDoubleInstr_MakeLocationSummary(value, temp, result, live) ==
  [contains_call |-> "kCallOnSlowPath", in0 |-> value, temp0 |-> temp,
   out0 |-> result, live_registers |-> live]

BoxDoubleInstr_EmitNativeCode(locs) ==
  LET slow_path == BoxDoubleSlowPath_EmitNativeCode(locs)
  IN [fast |-> <<TryAllocate("double_class", "entry", locs.out0, locs.temp0),
                 Bind("exit"),
                 StoreDFieldToOffset(locs.in0, locs.out0)>>,
      slow |-> slow_path.code,
      locs |-> slow_path.locs]

\* value_cid is the compile type of the input; the object tested at run
\* time is the one in the input register.
UnboxDoubleInstr_MakeLocationSummary(value, result, live) ==
  [contains_call |-> "kNoCall", in0 |-> value, temp0 |-> "none",
   out0 |-> result, live_registers |-> live]

UnboxDoubleInstr_EmitNativeCode(i, locs) ==
  LET value == locs.in0
      result == locs.out0
      load == LoadDFieldFromOffset(result, value)
      convert == <<[op |-> "Asr", rd |-> "TMP", rn |-> value],
                   [op |-> "scvtfd", vd |-> result, rn |-> "TMP"]>>
  IN [fast |->
        IF i.value_cid = kDoubleCid THEN <<load>>
        ELSE IF i.value_cid = kSmiCid THEN convert
        ELSE IF i.nullable_double
             THEN <<[op |-> "cmp_null", rn |-> value],
                    Branch("deopt", "EQ"),
                    load>>
             ELSE <<[op |-> "tsti", rn |-> value],
                    Branch("is_smi", "EQ"),
                    [op |-> "cmp_cid", rn |-> value, cid |-> kDoubleCid],
                    Branch("deopt", "NE"),
                    load,
                    Jump("done"),
                    Bind("is_smi")>> \o convert \o <<Bind("done")>>,
      slow |-> << >>,
      locs |-> locs]

\* The machine on entry to an instruction: every register the summary marks
\* live holds a value that later code reads.
EntryMachine(locs) ==
  [regs |-> [r \in CpuRegisters \cup FpuRegisters |->
               IF r \in locs.live_registers THEN LiveValue(r) ELSE Junk],
   saved |-> << >>,
   heap |-> [id \in {"new", "value", "field"} |-> Junk],
   guard |-> [is_nullable |-> kIllegalCid, kind_bits |-> 0,
              guarded_cid |-> kIllegalCid],
   slot |-> NullObject, stores |-> << >>, eq |-> FALSE,
   calls |-> 0, wild |-> FALSE, exit |-> "none"]

UnboxCids == {kDoubleCid, kDynamicCid}

InitBox ==
  /\ out = NoOut /\ field = NoField /\ snapshots = NoSnapshots
  /\ \E d \in DoubleSamples, value \in FpuRegisters,
        temp \in CpuRegisters, result \in CpuRegisters,
        live \in SUBSET (CpuRegisters \cup FpuRegisters),
        cid \in UnboxCids, nullable \in BOOLEAN :
       /\ temp # result
       /\ value \in live
       /\ instr = [tag |-> "BoxDouble", value |-> d,
                   locs |-> BoxDoubleInstr_MakeLocationSummary(
                              value, temp, result, live),
                   unbox_cid |-> cid, unbox_nullable |-> nullable]

EmitBoxDouble ==
  /\ instr.tag = "BoxDouble" /\ out = NoOut
  /\ \E new_space_full \in BOOLEAN :
       LET e == BoxDoubleInstr_EmitNativeCode(instr.locs)
           entry == [EntryMachine(instr.locs) EXCEPT
                       !.regs[instr.locs.in0] = UnboxedDouble(instr.value)]
       IN out' = [kind |-> "boxed", emitted |-> e,
                  slow_path_taken |-> new_space_full,
                  m |-> RunEmitted(e, entry, new_space_full)]
  /\ UNCHANGED <<instr, field, snapshots>>

EmitUnboxDouble ==
  /\ instr.tag = "BoxDouble" /\ out.kind = "boxed"
  /\ \E result \in FpuRegisters :
       LET locs == UnboxDoubleInstr_MakeLocationSummary(
                     instr.locs.out0, result, {})
           e == UnboxDoubleInstr_EmitNativeCode(
                  [value_cid |-> instr.unbox_cid,
                   nullable_double |-> instr.unbox_nullable], locs)
           m == RunEmitted(e, out.m, FALSE)
       IN out' = [kind |-> "unboxed", emitted |-> out.emitted,
                  slow_path_taken |-> out.slow_path_taken, m |-> m,
                  result |-> m.regs[result]]
  /\ UNCHANGED <<instr, field, snapshots>>

NextBox == EmitBoxDouble \/ EmitUnboxDouble
SpecBox == InitBox /\ [][NextBox]_vars

\* C12: unboxing the object BoxDouble produced, whether it was allocated
\* inline or by BoxDoubleSlowPath, yields the very double that was boxed,
\* bit for bit (NaN and the two zeros included).
C12_BoxUnboxRoundTrip ==
  ((instr.tag = "BoxDouble") /\ (out.kind = "unboxed")) =>
    /\ out.result = UnboxedDouble(instr.value)
    /\ out.m.exit = "end"
    /\ ~out.m.wild

\* A NaN boxed through the slow path, with the result register marked live
\* by the allocator, came back out.
C12_Witness ==
  /\ instr.tag = "BoxDouble" /\ out.kind = "unboxed"
  /\ out.slow_path_taken
  /\ instr.value = NaN
  /\ instr.locs.out0 \in instr.locs.live_registers
  /\ out.result = UnboxedDouble(NaN)


(***************************************************************************)
(* StoreInstanceField.  The summary carries the registers the allocator    *)
(* bound ("none" for an operand the instruction does not have, "constant"  *)
(* for a constant input).  The run-time field guard, the instance's field  *)
(* slot and the boxes live in the machine.                                 *)
(***************************************************************************)
kFloat32x4Cid == 10
kFloat64x2Cid == 11

FieldObject == [kind |-> "field"]
LoadObjectInto(rd, object) == [op |-> "LoadObject", rd |-> rd, object |-> object]
LoadFieldFromOffset(rd, base, slot) ==
  [op |-> "ldr_guard", rd |-> rd, rn |-> base, slot |-> slot]
CompareImmediate(rn, imm) == [op |-> "cmp_imm", rn |-> rn, imm |-> imm]
CompareObject(rn) == [op |-> "cmp_null", rn |-> rn]
LoadSlot(rd, instance) == [op |-> "ldr_slot", rd |-> rd, rn |-> instance]
StoreIntoObjectOffset(instance, value) ==
  [op |-> "str_slot", rn |-> instance, rm |-> value, barrier |-> TRUE]
StoreIntoObjectOffsetNoBarrier(instance, value) ==
  [op |-> "str_slot", rn |-> instance, rm |-> value, barrier |-> FALSE,
   constant |-> [kind |-> "constant"]]
LoadQFieldFromOffset(vd, base) == [op |-> "fldrq", vd |-> vd, rn |-> base]
StoreQFieldToOffset(vn, base) == [op |-> "fstrq", vn |-> vn, rn |-> base]

ClassOfCid(cid) ==
  CASE cid = kDoubleCid -> "double_class"
    [] cid = kFloat32x4Cid -> "float32x4_class"
    [] cid = kFloat64x2Cid -> "float64x2_class"

StoreInstanceFieldSlowPath_EmitNativeCode(locs0, cls) ==
  LET locs == RemoveOut(locs0)
  IN [code |-> <<Bind("entry_" \o cls),
                 SaveLiveRegisters(locs),
                 GenerateCall(cls),
                 mov(locs.temp0, "R0"),
                 RestoreLiveRegisters(locs),
                 Jump("exit_" \o cls)>>,
      locs |-> locs]

\* i is the instruction, a the registers the allocator bound and the
\* registers it found live across the instruction.
StoreInstanceFieldInstr_MakeLocationSummary(i, a) ==
  LET unboxed == i.is_unboxed_store /\ i.opt
      temps == unboxed \/ i.is_potential_unboxed_store
  IN [contains_call |->
        IF (i.guarded_cid = kIllegalCid) \/ i.is_initialization
        THEN "kCallOnSlowPath" ELSE "kNoCall",
      in0 |-> a.instance,
      in1 |-> IF unboxed THEN a.fpu
              ELSE IF ~i.is_potential_unboxed_store
                      /\ ~i.should_emit_store_barrier /\ i.value_is_constant
                   THEN "constant" ELSE a.value,
      temp0 |-> IF temps THEN a.temp ELSE "none",
      temp1 |-> IF temps THEN a.temp2 ELSE "none",
      temp2 |-> IF unboxed \/ ~temps THEN "none"
                ELSE IF i.opt THEN a.fpu ELSE "V1",
      out0 |-> "none",
      live_registers |-> a.live]

\* The allocate-if-null sequence shared by the unboxed stores: the box ends
\* up in temp0 and in the instance's slot.
AllocateBoxForSlot(locs, cls) ==
  <<TryAllocate(cls, "entry_" \o cls, locs.temp0, locs.temp1),
    Bind("exit_" \o cls),
    mov(locs.temp1, locs.temp0),
    StoreIntoObjectOffset(locs.in0, locs.temp1)>>

\* One of the blocks store_double, store_float32x4, store_float64x2: copy
\* is the pair of instructions that load the payload and store it.
StoreBoxedBlock(locs, cls, copy) ==
  <<Bind("store_" \o cls),
    LoadSlot(locs.temp0, locs.in0),
    CompareObject(locs.temp0),
    Branch("copy_" \o cls, "NE")>>
  \o AllocateBoxForSlot(locs, cls)
  \o <<Bind("copy_" \o cls)>> \o copy \o <<Jump("skip_store")>>

StoreInstanceFieldInstr_EmitNativeCode(i, locs) ==
  LET instance_reg == locs.in0
      plain_store ==
        <<IF i.should_emit_store_barrier
          THEN StoreIntoObjectOffset(instance_reg, locs.in1)
          ELSE StoreIntoObjectOffsetNoBarrier(instance_reg, locs.in1),
          Bind("skip_store")>>
  IN IF i.is_unboxed_store /\ i.opt
     THEN LET value == locs.in1
              temp == locs.temp0
              cls == ClassOfCid(i.guarded_cid)
              sp == StoreInstanceFieldSlowPath_EmitNativeCode(locs, cls)
              store == IF i.guarded_cid = kDoubleCid
                       THEN StoreDFieldToOffset(value, temp)
                       ELSE StoreQFieldToOffset(value, temp)
          IN IF i.is_initialization
             THEN [fast |-> AllocateBoxForSlot(locs, cls) \o <<store>>,
                   slow |-> sp.code, locs |-> sp.locs]
             ELSE [fast |-> <<LoadSlot(temp, instance_reg), store>>,
                   slow |-> << >>, locs |-> locs]
     ELSE IF i.is_potential_unboxed_store
     THEN LET value_reg == locs.in1
              temp == locs.temp0
              temp2 == locs.temp1
              fpu_temp == locs.temp2
              locs1 == IF ~i.opt
                       THEN [locs EXCEPT !.live_registers =
                                           @ \cup {locs.in0, locs.in1}]
                       ELSE locs
              sp1 == StoreInstanceFieldSlowPath_EmitNativeCode(
                       locs1, "double_class")
              sp2 == StoreInstanceFieldSlowPath_EmitNativeCode(
                       sp1.locs, "float32x4_class")
              sp3 == StoreInstanceFieldSlowPath_EmitNativeCode(
                       sp2.locs, "float64x2_class")
          IN [fast |->
                <<LoadObjectInto(temp, FieldObject),
                  LoadFieldFromOffset(temp2, temp, "is_nullable"),
                  CompareImmediate(temp2, kNullCid),
                  Branch("store_pointer", "EQ"),
                  LoadFieldFromOffset(temp2, temp, "kind_bits"),
                  [op |-> "tsti", rn |-> temp2],
                  Branch("store_pointer", "EQ"),
                  LoadFieldFromOffset(temp2, temp, "guarded_cid"),
                  CompareImmediate(temp2, kDoubleCid),
                  Branch("store_double_class", "EQ"),
                  LoadFieldFromOffset(temp2, temp, "guarded_cid"),
                  CompareImmediate(temp2, kFloat32x4Cid),
                  Branch("store_float32x4_class", "EQ"),
                  LoadFieldFromOffset(temp2, temp, "guarded_cid"),
                  CompareImmediate(temp2, kFloat64x2Cid),
                  Branch("store_float64x2_class", "EQ"),
                  Jump("store_pointer")>>
                \o StoreBoxedBlock(locs, "double_class",
                     <<LoadDFieldFromOffset(fpu_temp, value_reg),
                       StoreDFieldToOffset(fpu_temp, temp)>>)
                \o StoreBoxedBlock(locs, "float32x4_class",
                     <<LoadQFieldFromOffset(fpu_temp, value_reg),
                       StoreQFieldToOffset(fpu_temp, value_reg)>>)
                \o StoreBoxedBlock(locs, "float64x2_class",
                     <<LoadQFieldFromOffset(fpu_temp, value_reg),
                       StoreQFieldToOffset(fpu_temp, value_reg)>>)
                \o <<Bind("store_pointer")>>
                \o plain_store,
              slow |-> sp1.code \o sp2.code \o sp3.code,
              locs |-> sp3.locs]
     ELSE [fast |-> plain_store, slow |-> << >>, locs |-> locs]

(***************************************************************************)
(* LoadField.                                                              *)
(***************************************************************************)
LoadFieldInstr_MakeLocationSummary(i, a) ==
  [contains_call |-> IF i.opt /\ ~i.is_potential_unboxed_load
                     THEN "kNoCall" ELSE "kCallOnSlowPath",
   in0 |-> a.instance,
   temp0 |-> IF i.is_unboxed_load /\ i.opt THEN a.temp
             ELSE IF i.is_potential_unboxed_load
                  THEN (IF i.opt THEN a.fpu ELSE "V1")
                  ELSE "none",
   temp1 |-> IF ~(i.is_unboxed_load /\ i.opt) /\ i.is_potential_unboxed_load
             THEN a.temp ELSE "none",
   out0 |-> IF i.is_unboxed_load /\ i.opt THEN a.fpu ELSE a.value,
   live_registers |-> a.live]

LoadFieldInstr_EmitNativeCode(i, locs) ==
  LET instance_reg == locs.in0
      load_pointer == <<LoadSlot(locs.out0, instance_reg), Bind("done")>>
  IN IF i.is_unboxed_load /\ i.opt
     THEN [fast |-> <<LoadSlot(locs.temp0, instance_reg),
                      IF i.guarded_cid = kDoubleCid
                      THEN LoadDFieldFromOffset(locs.out0, locs.temp0)
                      ELSE [op |-> "UNIMPLEMENTED"]>>,
           slow |-> << >>, locs |-> locs]
     ELSE IF i.is_potential_unboxed_load
     THEN LET result_reg == locs.out0
              temp == locs.temp1
              value == locs.temp0
              locs1 == IF ~i.opt
                       THEN [locs EXCEPT !.live_registers = @ \cup {locs.in0}]
                       ELSE locs
              slow_path == BoxDoubleSlowPath_EmitNativeCode(locs1)
          IN [fast |->
                <<LoadObjectInto(result_reg, FieldObject),
                  LoadFieldFromOffset(temp, result_reg, "is_nullable"),
                  CompareImmediate(temp, kNullCid),
                  Branch("load_pointer", "EQ"),
                  LoadFieldFromOffset(temp, result_reg, "guarded_cid"),
                  CompareImmediate(temp, kDoubleCid),
                  Branch("load_double", "EQ"),
                  LoadFieldFromOffset(temp, result_reg, "guarded_cid"),
                  CompareImmediate(temp, kFloat32x4Cid),
                  Branch("load_float32x4", "EQ"),
                  LoadFieldFromOffset(temp, result_reg, "guarded_cid"),
                  CompareImmediate(temp, kFloat64x2Cid),
                  Branch("load_float64x2", "EQ"),
                  Jump("load_pointer"),
                  Bind("load_double"),
                  TryAllocate("double_class", "entry", result_reg, temp),
                  Bind("exit"),
                  LoadSlot(temp, instance_reg),
                  LoadDFieldFromOffset(value, temp),
                  StoreDFieldToOffset(value, result_reg),
                  Jump("done"),
                  Bind("load_float32x4"),
                  [op |-> "Stop", message |-> "Float32x4 Unimplemented"],
                  Bind("load_float64x2"),
                  [op |-> "Stop", message |-> "Float64x2 Unimplemented"],
                  Bind("load_pointer")>> \o load_pointer,
              slow |-> slow_path.code,
              locs |-> slow_path.locs]
     ELSE [fast |-> load_pointer, slow |-> << >>, locs |-> locs]

(***************************************************************************)
(* CheckStackOverflow and its slow path.                                   *)
(***************************************************************************)
CheckStackOverflowInstr_MakeLocationSummary_NoCall(a) ==
  [contains_call |-> "kNoCall", temp0 |-> a.temp,
   live_registers |-> a.live]
CheckStackOverflowInstr_MakeLocationSummary(a) ==
  [contains_call |-> "kCallOnSlowPath", temp0 |-> a.temp,
   live_registers |-> a.live]

CheckStackOverflowSlowPath_EmitNativeCode(i, locs) ==
  [code |-> (IF i.use_osr
             THEN <<Bind("osr_entry"),
                    [op |-> "LoadImmediate", rd |-> "TMP"],
                    [op |-> "LoadImmediate", rd |-> locs.temp0],
                    [op |-> "str", rn |-> locs.temp0, rm |-> "TMP"]>>
             ELSE << >>)
            \o <<Bind("entry"),
                 SaveLiveRegisters(locs),
                 GenerateCall("kStackOverflowRuntimeEntry"),
                 RestoreLiveRegisters(locs),
                 Jump("exit")>>,
   locs |-> locs]

CheckStackOverflowInstr_EmitNativeCode(i, locs) ==
  LET slow_path == CheckStackOverflowSlowPath_EmitNativeCode(i, locs)
  IN [fast |-> <<[op |-> "LoadImmediate", rd |-> "TMP"],
                 [op |-> "ldr", rd |-> "TMP", rn |-> "TMP"],
                 [op |-> "cmp_sp", rn |-> "SP", rm |-> "TMP"],
                 Branch("entry", "LS")>>
               \o (IF i.can_osr_function /\ i.in_loop
                   THEN <<LoadObjectInto(locs.temp0, [kind |-> "function"]),
                          [op |-> "ldr", rd |-> locs.temp0, rn |-> locs.temp0],
                          [op |-> "cmp_counter", rn |-> locs.temp0],
                          Branch("osr_entry", "GE")>>
                   ELSE << >>)
               \o (IF i.force_slow_path THEN <<Jump("entry")>> ELSE << >>)
               \o <<Bind("exit")>>,
      slow |-> slow_path.code,
      locs |-> slow_path.locs]

(***************************************************************************)
(* GuardField: the registers its code names and the runtime call of the    *)
(* unoptimized learning path.                                              *)
(***************************************************************************)
GuardFieldInstr_MakeLocationSummary(i, a) ==
  [contains_call |-> "kNoCall", in0 |-> a.value,
   temp0 |-> a.temp, temp1 |-> a.temp2,
   temp2 |-> IF i.field_has_length \/ (i.field_cid = kIllegalCid)
             THEN a.instance ELSE "none",
   live_registers |-> a.live]

PickedFieldReg_Other == "R3"
PickedFieldReg == "R2"

GuardFieldInstr_Registers(i, locs) ==
  LET value_reg == locs.in0
      value_cid_reg == locs.temp0
      temp_reg == locs.temp1
      field_reg == IF locs.temp2 # "none" THEN locs.temp2
                   ELSE IF ~i.is_optimizing THEN PickedFieldReg
                   ELSE "none"
      uses(names) == [op |-> "uses", names |-> names \ {"none"}]
  IN IF i.field_cid = kDynamicCid THEN [fast |-> << >>, slow |-> << >>,
                                        locs |-> locs]
     ELSE IF ~i.is_optimizing \/ (i.field_cid = kIllegalCid)
     THEN [fast |->
             <<LoadObjectInto(field_reg, FieldObject),
               uses({value_reg, value_cid_reg, field_reg, "TMP"}
                    \cup IF i.field_has_length THEN {temp_reg} ELSE {})>>
             \o (IF ~i.is_optimizing
                 THEN <<Jump("ok"),
                        Bind("fail"),
                        LoadFieldFromOffset("TMP", field_reg, "guarded_cid"),
                        CompareImmediate("TMP", kDynamicCid),
                        Branch("ok", "EQ"),
                        [op |-> "Push", rn |-> field_reg],
                        [op |-> "Push", rn |-> value_reg],
                        [op |-> "CallRuntime",
                         entry |-> "kUpdateFieldCidRuntimeEntry"],
                        [op |-> "Drop"]>>
                 ELSE << >>)
             \o <<Bind("ok")>>,
           slow |-> << >>, locs |-> locs]
     ELSE [fast |->
             (IF field_reg # "none"
              THEN <<LoadObjectInto(field_reg, FieldObject)>> ELSE << >>)
             \o <<uses(IF i.value_cid = kDynamicCid
                       THEN {value_reg}
                            \cup (IF i.field_cid # kSmiCid
                                  THEN {value_cid_reg} ELSE {})
                            \cup (IF i.field_has_length
                                  THEN {value_cid_reg, field_reg, "TMP"}
                                  ELSE {})
                       ELSE IF i.field_has_length
                               /\ (i.value_cid = i.field_cid)
                            THEN {value_cid_reg, value_reg} ELSE {}),
                  Bind("ok")>>,
           slow |-> << >>, locs |-> locs]

(***************************************************************************)
(* StoreStaticField, and StoreIndexed into an object array.                *)
(***************************************************************************)
StoreStaticFieldInstr_MakeLocationSummary(i, a) ==
  [contains_call |-> "kNoCall", in0 |-> a.value, temp0 |-> a.temp,
   live_registers |-> a.live]

StoreStaticFieldInstr_EmitNativeCode_NoBarrier(i, locs) ==
  [fast |-> <<LoadObjectInto(locs.temp0, FieldObject),
              StoreIntoObjectOffsetNoBarrier(locs.temp0, locs.in0)>>,
   slow |-> << >>, locs |-> locs]

StoreStaticFieldInstr_EmitNativeCode(i, locs) ==
  [fast |-> <<LoadObjectInto(locs.temp0, FieldObject),
              IF i.needs_store_buffer
              THEN StoreIntoObjectOffset(locs.temp0, locs.in0)
              ELSE StoreIntoObjectOffsetNoBarrier(locs.temp0, locs.in0)>>,
   slow |-> << >>, locs |-> locs]

StoreIndexedInstr_MakeLocationSummary(i, a) ==
  [contains_call |-> "kNoCall", in0 |-> a.instance, in1 |-> a.temp,
   in2 |-> IF i.should_emit_store_barrier \/ ~i.value_is_constant
           THEN a.value ELSE "constant",
   live_registers |-> a.live]

StoreIndexedArrayStore(i, locs) ==
  [fast |-> <<[op |-> "add", rd |-> locs.in1, rn |-> locs.in0,
               rm |-> locs.in1],
              IF i.should_emit_store_barrier
              THEN StoreIntoObjectOffset(locs.in0, locs.in2)
              ELSE StoreIntoObjectOffsetNoBarrier(locs.in0, locs.in2)>>,
   slow |-> << >>, locs |-> locs]

(***************************************************************************)
(* Variants without an implementation: LoadIndexed of an unboxed element   *)
(* and EmitSmiShiftLeft of a constant left operand.                        *)
(***************************************************************************)
LoadIndexedInstr_MakeLocationSummary(i, a) ==
  [contains_call |-> "kNoCall", in0 |-> a.instance, in1 |-> a.temp,
   out0 |-> a.fpu, live_registers |-> a.live]

LoadIndexedUnboxed(i, locs) ==
  [fast |-> <<[op |-> "add", rd |-> locs.in1, rn |-> locs.in0,
               rm |-> locs.in1]>>
            \o (CASE i.class_id = "kTypedDataFloat32ArrayCid" ->
                       <<[op |-> "fldrs", vd |-> locs.out0, rn |-> locs.in1]>>
                  [] i.class_id = "kTypedDataFloat64ArrayCid" ->
                       <<[op |-> "fldrd_element", vd |-> locs.out0,
                          rn |-> locs.in1]>>
                  [] i.class_id \in {"kTypedDataFloat64x2ArrayCid",
                                     "kTypedDataInt32x4ArrayCid",
                                     "kTypedDataFloat32x4ArrayCid"} ->
                       <<[op |-> "fldrq_element", vd |-> locs.out0,
                          rn |-> locs.in1]>>
                  [] OTHER -> << >>),
   slow |-> << >>, locs |-> locs]

BinarySmiOpInstr_MakeLocationSummary(i, a) ==
  [contains_call |-> "kNoCall", in0 |-> a.instance, in1 |-> a.value,
   temp0 |-> a.temp2, out0 |-> a.temp, live_registers |-> a.live]

\* EmitSmiShiftLeft with a register count and a left operand bound to a
\* constant, not truncating.
EmitSmiShiftLeftOfConstant(i, locs) ==
  LET left == locs.in0
      right == locs.in1
      result == locs.out0
  IN [fast |->
        (IF i.left_is_smi
         THEN IF i.left_int = 0
              THEN <<[op |-> "cmp", rn |-> right, rm |-> "ZR"],
                     Branch("deopt", "MI"),
                     mov(result, "ZR")>>
              ELSE (IF i.right_needs_check
                    THEN <<CompareImmediate(right, "max_right"),
                           Branch("deopt", "CS")>>
                    ELSE << >>)
                   \o <<[op |-> "Asr", rd |-> "TMP", rn |-> right],
                        [op |-> "lslv", rd |-> result, rn |-> left,
                         rm |-> "TMP"]>>
         ELSE << >>)
        \o (IF i.throw_on_javascript_int_overflow
               /\ ~(i.left_is_smi /\ (i.left_int = 0))
            THEN <<[op |-> "EmitJavascriptOverflowCheck", rn |-> result]>>
            ELSE << >>),
      slow |-> << >>, locs |-> locs]

(***************************************************************************)
(* Emission of one instruction in either tier, and a run of the code of a  *)
(* field store.                                                            *)
(***************************************************************************)
MakeLocationSummary(i, a) ==
  CASE i.tag = "StoreInstanceField" ->
         StoreInstanceFieldInstr_MakeLocationSummary(i, a)
    [] i.tag = "LoadField" -> LoadFieldInstr_MakeLocationSummary(i, a)
    [] i.tag = "GuardField" -> GuardFieldInstr_MakeLocationSummary(i, a)
    [] i.tag = "CheckStackOverflow" ->
         CheckStackOverflowInstr_MakeLocationSummary(a)
    [] i.tag = "BoxDouble" ->
         BoxDoubleInstr_MakeLocationSummary(a.fpu, a.temp, a.value, a.live)
    [] i.tag = "UnboxDouble" ->
         UnboxDoubleInstr_MakeLocationSummary(a.value, a.fpu, a.live)
    [] i.tag = "StoreStaticField" ->
         StoreStaticFieldInstr_MakeLocationSummary(i, a)
    [] i.tag = "StoreIndexed" -> StoreIndexedInstr_MakeLocationSummary(i, a)
    [] i.tag = "LoadIndexed" -> LoadIndexedInstr_MakeLocationSummary(i, a)
    [] i.tag = "BinarySmiOp" -> BinarySmiOpInstr_MakeLocationSummary(i, a)

EmitNativeCode(i, locs) ==
  CASE i.tag = "StoreInstanceField" ->
         StoreInstanceFieldInstr_EmitNativeCode(i, locs)
    [] i.tag = "LoadField" -> LoadFieldInstr_EmitNativeCode(i, locs)
    [] i.tag = "GuardField" -> GuardFieldInstr_Registers(i, locs)
    [] i.tag = "CheckStackOverflow" ->
         CheckStackOverflowInstr_EmitNativeCode(i, locs)
    [] i.tag = "BoxDouble" -> BoxDoubleInstr_EmitNativeCode(locs)
    [] i.tag = "UnboxDouble" -> UnboxDoubleInstr_EmitNativeCode(i, locs)
    [] i.tag = "StoreStaticField" ->
         StoreStaticFieldInstr_EmitNativeCode(i, locs)
    [] i.tag = "StoreIndexed" -> StoreIndexedArrayStore(i, locs)
    [] i.tag = "LoadIndexed" -> LoadIndexedUnboxed(i, locs)
    [] i.tag = "BinarySmiOp" -> EmitSmiShiftLeftOfConstant(i, locs)

UnboxedCids == {kDoubleCid, kFloat32x4Cid, kFloat64x2Cid}

StoreInstanceFields ==
  {[tag |-> "StoreInstanceField", opt |-> o, is_unboxed_store |-> u,
    is_potential_unboxed_store |-> p, guarded_cid |-> c,
    is_initialization |-> n, should_emit_store_barrier |-> b,
    value_is_constant |-> k] :
     o \in BOOLEAN, u \in BOOLEAN, p \in BOOLEAN,
     c \in UnboxedCids \cup {kIllegalCid, kSmiCid},
     n \in BOOLEAN, b \in BOOLEAN, k \in BOOLEAN}

StoreInstanceFieldWellFormed(i) ==
  /\ i.is_unboxed_store =>
       i.is_potential_unboxed_store /\ (i.guarded_cid \in UnboxedCids)
  /\ i.value_is_constant =>
       ~i.is_potential_unboxed_store /\ ~i.should_emit_store_barrier

OtherInstructions ==
  {[tag |-> "LoadField", opt |-> o, is_unboxed_load |-> u,
    is_potential_unboxed_load |-> p, guarded_cid |-> c] :
     o \in BOOLEAN, u \in BOOLEAN, p \in BOOLEAN, c \in UnboxedCids}
  \cup {[tag |-> "GuardField", opt |-> o, is_optimizing |-> o,
         field_cid |-> c, field_has_length |-> l, value_cid |-> v] :
          o \in BOOLEAN, c \in {kIllegalCid, kSmiCid, kArrayCid, kDynamicCid},
          l \in BOOLEAN, v \in {kDynamicCid, kSmiCid, kArrayCid}}
  \cup {[tag |-> "CheckStackOverflow", opt |-> o, use_osr |-> u,
         can_osr_function |-> c, in_loop |-> l, force_slow_path |-> f] :
          o \in BOOLEAN, u \in BOOLEAN, c \in BOOLEAN, l \in BOOLEAN,
          f \in BOOLEAN}
  \cup {[tag |-> "BoxDouble", opt |-> TRUE]}
  \cup {[tag |-> "UnboxDouble", opt |-> TRUE, value_cid |-> c,
         nullable_double |-> n] :
          c \in {kDoubleCid, kSmiCid, kDynamicCid}, n \in BOOLEAN}
  \cup {[tag |-> "StoreStaticField", opt |-> o, needs_store_buffer |-> b] :
          o \in BOOLEAN, b \in BOOLEAN}
  \cup {[tag |-> "StoreIndexed", opt |-> o, should_emit_store_barrier |-> b,
         value_is_constant |-> k] :
          o \in BOOLEAN, b \in BOOLEAN, k \in BOOLEAN}
  \cup {[tag |-> "LoadIndexed", opt |-> TRUE, class_id |-> c] :
          c \in {"kTypedDataFloat32ArrayCid", "kTypedDataFloat64ArrayCid",
                 "kTypedDataFloat64x2ArrayCid", "kTypedDataInt32x4ArrayCid",
                 "kTypedDataFloat32x4ArrayCid", "kTypedDataInt8ArrayCid"}}
  \cup {[tag |-> "BinarySmiOp", opt |-> TRUE, left_is_smi |-> s,
         left_int |-> l, right_needs_check |-> r,
         throw_on_javascript_int_overflow |-> j] :
          s \in BOOLEAN, l \in 0..1, r \in BOOLEAN, j \in BOOLEAN}

OtherWellFormed(i) ==
  CASE i.tag = "LoadField" ->
         i.is_unboxed_load => i.is_potential_unboxed_load
    [] i.tag = "GuardField" ->
         /\ (i.field_cid = kDynamicCid) => ~i.is_optimizing
         /\ i.field_has_length => (i.field_cid \in {kIllegalCid, kArrayCid})
    [] i.tag = "CheckStackOverflow" ->
         i.can_osr_function => (i.use_osr /\ ~i.opt)
    [] OTHER -> TRUE

\* Bindings the allocator may hand out: distinct general-purpose registers.
Allocations ==
  {[instance |-> "R0", value |-> "R1", temp |-> "R2", temp2 |-> "R3",
    fpu |-> "V0"],
   [instance |-> "R2", value |-> "R3", temp |-> "R0", temp2 |-> "R1",
    fpu |-> "V1"]}

\* The register inputs, which the code reads after a slow path returns.
RegisterInputs(locs) ==
  {locs[f] : f \in DOMAIN locs \cap {"in0", "in1", "in2"}}
    \ {"none", "constant"}

InitEmit ==
  /\ out = NoOut /\ field = NoField /\ snapshots = NoSnapshots
  /\ \E i \in StoreInstanceFields \cup OtherInstructions,
        b \in Allocations :
     \E live \in SUBSET {b.instance, b.value, b.temp, b.fpu} :
       LET locs == MakeLocationSummary(i, b @@ [live |-> live])
       IN /\ IF i.tag = "StoreInstanceField"
             THEN StoreInstanceFieldWellFormed(i) ELSE OtherWellFormed(i)
          /\ IF i.opt THEN RegisterInputs(locs) \subseteq live ELSE live = {}
          /\ instr = i @@ [locs |-> locs]

\* General-purpose registers an instruction names, and the calls it makes.
RegistersOf(code) ==
  UNION {IF code[k].op = "uses" THEN code[k].names
         ELSE {code[k][f] : f \in DOMAIN code[k] \cap {"rd", "rn", "rm", "temp"}}
           : k \in 1..Len(code)} \ {"constant"}
CallsIn(code) ==
  {k \in 1..Len(code) : code[k].op \in {"call", "CallRuntime"}}

EmitInstruction ==
  /\ instr.tag # "BoxDouble" \/ ("unbox_cid" \notin DOMAIN instr)
  /\ out = NoOut
  /\ out' = [kind |-> "emitted", e |-> EmitNativeCode(instr, instr.locs)]
  /\ UNCHANGED <<instr, field, snapshots>>

\* Boxes hold a payload; the value being stored is the box "value", the box
\* the field already refers to is "field".
Payload(id) == [kind |-> "payload", id |-> id]
GuardStates ==
  {[is_nullable |-> n, kind_bits |-> b, guarded_cid |-> c] :
     n \in {kNullCid, kIllegalCid}, b \in 0..1,
     c \in UnboxedCids \cup {kSmiCid}}

StoreEntryMachine(i, locs, guard, slot) ==
  LET m == EntryMachine(locs)
  IN [m EXCEPT !.regs = [r \in DOMAIN m.regs |->
                           IF r = locs.in0 THEN [kind |-> "instance"]
                           ELSE IF r = locs.in1
                           THEN (IF i.is_unboxed_store /\ i.opt
                                 THEN Payload("value")
                                 ELSE BoxPointer("value"))
                           ELSE m.regs[r]],
                !.heap = [id \in DOMAIN m.heap |->
                            IF id = "new" THEN Junk ELSE Payload(id)],
                !.guard = guard,
                !.slot = slot]

RunStoreInstanceField ==
  /\ instr.tag = "StoreInstanceField" /\ out.kind = "emitted"
  /\ \E guard \in GuardStates, slot \in {NullObject, BoxPointer("field")},
        new_space_full \in BOOLEAN :
       /\ (instr.is_unboxed_store /\ instr.opt) =>
            ((slot = NullObject) <=> instr.is_initialization)
       /\ out' = [kind |-> "ran", e |-> out.e, guard |-> guard,
                  slot |-> slot, new_space_full |-> new_space_full,
                  m |-> RunEmitted(out.e,
                          StoreEntryMachine(instr, out.e.locs, guard, slot),
                          new_space_full)]
  /\ UNCHANGED <<instr, field, snapshots>>

NextEmit == EmitInstruction \/ RunStoreInstanceField
SpecEmit == InitEmit /\ [][NextEmit]_vars


Emitted == out.kind \in {"emitted", "ran"}
NoCallEmitted == Emitted /\ (instr.locs.contains_call = "kNoCall")

\* C13 as stated: a kNoCall instruction emits no runtime or stub call and
\* registers no slow path, in either tier, and whatever registers a slow
\* path is kCallOnSlowPath.
C13_Original ==
  Emitted =>
    /\ (instr.locs.contains_call = "kNoCall") =>
         (CallsIn(out.e.fast) = {}) /\ (out.e.slow = << >>)
    /\ (out.e.slow # << >>) =>
         (instr.locs.contains_call = "kCallOnSlowPath")

GuardFieldCallsRuntime ==
  /\ instr.tag = "GuardField"
  /\ ~instr.is_optimizing
  /\ instr.field_cid # kDynamicCid

StoreRegistersSlowPaths ==
  /\ instr.tag = "StoreInstanceField"
  /\ instr.is_potential_unboxed_store
  /\ ~(instr.is_unboxed_store /\ instr.opt)

\* C13 (amended): a kNoCall instruction emits a runtime call exactly when it
\* is a GuardField compiled without optimization for a field whose guard has
\* not given up, and registers slow paths exactly when it is a
\* StoreInstanceField that emits its potentially-unboxed path; every other
\* instruction that registers a slow path is kCallOnSlowPath.
C13_NoCallExceptions ==
  Emitted =>
    /\ (instr.locs.contains_call = "kNoCall") =>
         /\ (CallsIn(out.e.fast) # {}) <=> GuardFieldCallsRuntime
         /\ (out.e.slow # << >>) <=> StoreRegistersSlowPaths
    /\ ((out.e.slow # << >>) /\ ~StoreRegistersSlowPaths) =>
         (instr.locs.contains_call = "kCallOnSlowPath")

\* An unoptimized GuardField, classified kNoCall, with the runtime call in
\* its code.
C13_Witness ==
  /\ NoCallEmitted /\ GuardFieldCallsRuntime
  /\ \E k \in CallsIn(out.e.fast) :
       out.e.fast[k].entry = "kUpdateFieldCidRuntimeEntry"


\* C14 as stated: emission leaves the whole LocationSummary, live-register
\* set included, as the allocator filled it in.
C14_Original == Emitted => (out.e.locs = instr.locs)

\* Registers an unoptimized potentially-unboxed field access adds to the
\* live set, and the output register a slow path removes from it.
AddedDuringEmission ==
  IF instr.opt THEN {}
  ELSE IF StoreRegistersSlowPaths THEN {instr.locs.in0, instr.locs.in1}
  ELSE IF (instr.tag = "LoadField") /\ instr.is_potential_unboxed_load
       THEN {instr.locs.in0}
       ELSE {}
RemovedDuringEmission ==
  IF (out.e.slow # << >>) /\ (instr.tag # "CheckStackOverflow")
  THEN {instr.locs.out0} ELSE {}

\* C14 (amended): emission never changes the operand bindings or the call
\* classification of a summary; it changes the live-register set only by a
\* slow path removing out(0) and by an unoptimized potentially-unboxed
\* StoreInstanceField or LoadField adding its register inputs.
C14_OnlyLiveSetChanges ==
  Emitted =>
    /\ [out.e.locs EXCEPT !.live_registers = {}]
         = [instr.locs EXCEPT !.live_registers = {}]
    /\ out.e.locs.live_registers
         = (instr.locs.live_registers \cup AddedDuringEmission)
             \ RemovedDuringEmission

\* An unoptimized StoreInstanceField whose emission added both inputs to a
\* live set that was empty.
C14_Witness ==
  /\ Emitted /\ instr.tag = "StoreInstanceField" /\ ~instr.opt
  /\ instr.locs.live_registers = {}
  /\ out.e.locs.live_registers = {instr.locs.in0, instr.locs.in1}


\* The registers the code generator keeps for itself.
ReservedRegisters == {"TMP", "TMP2", "PP", "SP", "FP", "CTX", "ZR"}

\* The registers bound as an input, temp or output of a summary.
SummaryRegisters(locs) ==
  {locs[f] : f \in DOMAIN locs \cap
               {"in0", "in1", "in2", "temp0", "temp1", "temp2", "out0"}}
    \ {"none", "constant"}

\* The general-purpose registers the emitted code of the instruction names
\* without the summary binding them.
UnrequestedRegisters ==
  (RegistersOf(out.e.fast) \cap CpuRegisters)
     \ SummaryRegisters(instr.locs)

GuardFieldPicksRegister ==
  /\ instr.tag = "GuardField" /\ ~instr.is_optimizing
  /\ instr.field_cid # kDynamicCid
  /\ instr.locs.temp2 = "none"

AbortsCompilation ==
  \E k \in 1..Len(out.e.fast) : out.e.fast[k].op = "UNIMPLEMENTED"

\* The emitted code contains a trap that stops the program when reached.
TrapsAtRunTime ==
  \E k \in 1..Len(out.e.fast) : out.e.fast[k].op = "Stop"

\* The combinations the backend has no code for: an unboxed load of a
\* Float32x4 or Float64x2 field, an unboxed element load of a class id the
\* switch does not list, a shift of a constant that is not a Smi.
UnsupportedCombination ==
  \/ /\ instr.tag = "LoadField" /\ instr.opt /\ instr.is_unboxed_load
     /\ instr.guarded_cid \in {kFloat32x4Cid, kFloat64x2Cid}
  \/ /\ instr.tag = "LoadIndexed"
     /\ instr.class_id \notin {"kTypedDataFloat32ArrayCid",
                               "kTypedDataFloat64ArrayCid",
                               "kTypedDataFloat64x2ArrayCid",
                               "kTypedDataInt32x4ArrayCid",
                               "kTypedDataFloat32x4ArrayCid"}
  \/ instr.tag = "BinarySmiOp" /\ ~instr.left_is_smi

\* C16: an unsupported combination aborts compilation, and no emission
\* stands in a run-time trap for the code of an unsupported representation.
C16_Original ==
  Emitted =>
    /\ ~TrapsAtRunTime
    /\ UnsupportedCombination => AbortsCompilation

\* The part of C16 the code keeps: the optimized unboxed load of a
\* Float32x4 or Float64x2 field aborts compilation.
C16_UnboxedLoadAborts ==
  (Emitted /\ instr.tag = "LoadField" /\ instr.opt /\ instr.is_unboxed_load
     /\ instr.guarded_cid \in {kFloat32x4Cid, kFloat64x2Cid})
    => (AbortsCompilation /\ ~TrapsAtRunTime)

\* The potentially-unboxed load, whose Float32x4 and Float64x2 blocks hold
\* a trap only.
C16_TrapOnly ==
  (Emitted /\ instr.tag = "LoadField" /\ instr.is_potential_unboxed_load
     /\ ~(instr.opt /\ instr.is_unboxed_load))
    => (TrapsAtRunTime /\ ~AbortsCompilation)


\* The entry label of each slow path with the exit label it returns to.
SlowPathLabels ==
  [entry |-> "exit"]
    @@ [l \in {"entry_" \o ClassOfCid(c) : c \in UnboxedCids} |->
          CHOOSE x \in {"exit_" \o ClassOfCid(c) : c \in UnboxedCids} :
            \E c \in UnboxedCids : /\ l = "entry_" \o ClassOfCid(c)
                                   /\ x = "exit_" \o ClassOfCid(c)]

\* The positions where the slow code of the instruction binds an entry
\* label.
SlowPathEntries ==
  {k \in 1..Len(out.e.slow) :
     /\ out.e.slow[k].op = "bind"
     /\ out.e.slow[k].target \in DOMAIN SlowPathLabels}

\* The register an allocation slow path hands the new object over in.
SlowPathDestination ==
  IF instr.tag = "StoreInstanceField" THEN instr.locs.temp0
  ELSE instr.locs.out0

\* The steps that follow the entry label bound at position k.
SlowPathSteps(k) ==
  LET locs == out.e.locs
      exit == SlowPathLabels[out.e.slow[k].target]
  IN <<SaveLiveRegisters(locs)>>
       \o (IF instr.tag = "CheckStackOverflow"
           THEN <<GenerateCall("kStackOverflowRuntimeEntry")>>
           ELSE <<out.e.slow[k + 2],
                  mov(SlowPathDestination, "R0")>>)
       \o <<RestoreLiveRegisters(locs), Jump(exit)>>

\* The positions where the code of the instruction binds the exit label of
\* the slow path entered at position k of the slow code.
ExitBinds(k) ==
  {j \in 1..Len(out.e.fast) :
     out.e.fast[j] = Bind(SlowPathLabels[out.e.slow[k].target])}

\* C17: from its entry label on, a slow path saves the live registers of
\* the summary, calls, copies R0 into the destination (allocation slow
\* paths), restores the live registers and branches to its exit label; the
\* instruction binds that exit label once, directly after the inline
\* allocation that fails into the slow path or the checks that branch
\* into it.
C17_SlowPathOrder ==
  Emitted =>
    /\ \A k \in SlowPathEntries :
         LET steps == SlowPathSteps(k)
         IN /\ k + Len(steps) <= Len(out.e.slow)
            /\ SubSeq(out.e.slow, k + 1, k + Len(steps)) = steps
            /\ out.e.slow[k + 2].op = "call"
            /\ Cardinality(ExitBinds(k)) = 1
            /\ \A j \in ExitBinds(k) :
                 /\ j > 1
                 /\ \/ /\ out.e.fast[j - 1].op = "TryAllocate"
                       /\ out.e.fast[j - 1].failure = out.e.slow[k].target
                    \/ /\ instr.tag = "CheckStackOverflow"
                       /\ out.e.fast[j - 1].op = "b"
                       /\ out.e.fast[j - 1].target \in {"entry", "osr_entry"}
    /\ (out.e.slow # << >>) => (SlowPathEntries # {})
    /\ Len(out.e.slow)
         = Cardinality(SlowPathEntries)
             * (IF instr.tag = "CheckStackOverflow" THEN 5 ELSE 6)
           + (IF instr.tag = "CheckStackOverflow" /\ instr.use_osr
              THEN 4 ELSE 0)

\* A StoreInstanceField that emitted the slow paths of its three boxes.
C17_Witness ==
  /\ Emitted /\ instr.tag = "StoreInstanceField"
  /\ Cardinality(SlowPathEntries) = 3
  /\ \A k \in SlowPathEntries : ExitBinds(k) # {}


\* The register sets the allocation slow paths of the instruction save and
\* restore.
AllocationSavedSets ==
  IF instr.tag = "CheckStackOverflow" THEN {}
  ELSE {out.e.slow[k + 1].regs : k \in SlowPathEntries}

C18_BoxDoubleResultNotSaved ==
  (Emitted /\ instr.tag \in {"BoxDouble", "LoadField"}) =>
    \A regs \in AllocationSavedSets : instr.locs.out0 \notin regs

\* The slow path of StoreInstanceField saves temp(0) whenever the summary
\* marks it live.
C18_TempSavedWhenLive ==
  (Emitted /\ instr.tag = "StoreInstanceField") =>
    \A regs \in AllocationSavedSets :
      (instr.locs.temp0 \in regs)
        <=> (instr.locs.temp0 \in instr.locs.live_registers)


\* The three stores of a tagged value into a heap object, and the
\* compile-time predicate of each.
BarrierInstructions == {"StoreInstanceField", "StoreIndexed", "StoreStaticField"}
StoreBarrierPredicate ==
  IF instr.tag = "StoreStaticField" THEN instr.needs_store_buffer
  ELSE instr.should_emit_store_barrier

\* The stores into the object that the emitted code contains.
EmittedStores ==
  {k \in 1..Len(out.e.fast) : out.e.fast[k].op = "str_slot"}

\* The register or constant holding the value to store.
StoredValue ==
  CASE instr.tag = "StoreStaticField" -> instr.locs.in0
    [] instr.tag = "StoreIndexed" -> instr.locs.in2
    [] OTHER -> instr.locs.in1

\* C19: a barrier-less store is emitted only when the compile-time
\* predicate is false; when it is true the value is in a register (a
\* floating-point one for the optimized unboxed store, which stores no
\* reference to the value) and every store of a reference has the barrier;
\* every emitted store of the value has the barrier exactly when the
\* predicate is true, so no run of the code chooses.
C19_BarrierChosenAtCompileTime ==
  (Emitted /\ instr.tag \in BarrierInstructions) =>
    /\ \A k \in EmittedStores :
         /\ ~out.e.fast[k].barrier => ~StoreBarrierPredicate
         /\ (out.e.fast[k].rm = StoredValue) =>
              (out.e.fast[k].barrier = StoreBarrierPredicate)
    /\ StoreBarrierPredicate =>
         /\ StoredValue \in CpuRegisters \cup FpuRegisters
         /\ \A k \in EmittedStores : out.e.fast[k].rm \in CpuRegisters
    /\ (out.kind = "ran" /\ StoreBarrierPredicate) =>
         \A k \in 1..Len(out.m.stores) : out.m.stores[k]

\* A field store with the predicate true whose run stored the value with
\* the barrier.
C19_Witness ==
  /\ out.kind = "ran" /\ instr.tag = "StoreInstanceField"
  /\ StoreBarrierPredicate /\ ~instr.is_potential_unboxed_store
  /\ out.m.stores = <<TRUE>>
  /\ out.m.slot = BoxPointer("value")


\* A run of the run-time dispatch of a potentially-unboxed field store.
RanPotentialUnboxedStore ==
  /\ out.kind = "ran"
  /\ instr.is_potential_unboxed_store
  /\ ~(instr.opt /\ instr.is_unboxed_store)

\* The guard the run found: not nullable, an unboxing candidate, and of a
\* class whose values are stored unboxed.
GuardSaysUnboxed ==
  /\ out.guard.is_nullable # kNullCid
  /\ out.guard.kind_bits = 1
  /\ out.guard.guarded_cid \in UnboxedCids

\* After the run the field refers to a box holding the payload of the
\* stored value, and the box of the value is as it was.
PayloadInFieldBox ==
  /\ out.m.slot.kind = "box"
  /\ out.m.slot.id \in {"field", "new"}
  /\ (out.slot = BoxPointer("field")) => (out.m.slot = out.slot)
  /\ out.m.heap[out.m.slot.id] = Payload("value")
  /\ out.m.heap["value"] = Payload("value")

\* C20: under a guard that says unboxed the payload of the value ends up in
\* the box the field refers to and the value's box is unchanged; under any
\* other guard the field refers to the value itself.
C20_Original ==
  RanPotentialUnboxedStore =>
    IF GuardSaysUnboxed THEN PayloadInFieldBox
    ELSE out.m.slot = BoxPointer("value")

\* The part of C20 the code keeps: the double case, unless the inline
\* allocation fails with temp(0) marked live, and every guard that does
\* not say unboxed.
C20_DoubleAndPointer ==
  RanPotentialUnboxedStore =>
    /\ (GuardSaysUnboxed /\ out.guard.guarded_cid = kDoubleCid
          /\ ~(out.new_space_full /\ out.slot = NullObject
                 /\ instr.locs.temp0 \in out.e.locs.live_registers))
         => PayloadInFieldBox
    /\ ~GuardSaysUnboxed => (out.m.slot = BoxPointer("value"))

\* What the code does for Float32x4 and Float64x2: the payload goes back
\* into the value's own box and never reaches the box of the field.
C20_SimdPayloadNotCopied ==
  (RanPotentialUnboxedStore /\ GuardSaysUnboxed
     /\ out.guard.guarded_cid \in {kFloat32x4Cid, kFloat64x2Cid})
    => /\ out.m.slot.kind = "box" =>
            (out.m.heap[out.m.slot.id] # Payload("value"))
       /\ out.m.heap["value"] = Payload("value")


(***************************************************************************)
(* DoubleToSmi and DoubleToInteger: the conversion of an unboxed double to *)
(* a tagged integer.  A double here is NaN, an infinity, or a sign, an     *)
(* integer magnitude and whether a fraction follows it.                    *)
(***************************************************************************)
ConversionMargin == 3
ConversionSamples ==
  {[nan |-> TRUE, inf |-> FALSE, neg |-> FALSE, mag |-> 0, frac |-> FALSE]}
  \cup {[nan |-> FALSE, inf |-> TRUE, neg |-> s, mag |-> 0, frac |-> FALSE] :
          s \in BOOLEAN}
  \cup {[nan |-> FALSE, inf |-> FALSE, neg |-> s, mag |-> m, frac |-> f] :
          s \in BOOLEAN, m \in 0..(kMaxWord + ConversionMargin),
          f \in BOOLEAN}

\* The double rounded toward zero, as a mathematical integer.
Truncated(d) == IF d.neg THEN 0 - d.mag ELSE d.mag

\* fcvtzds: 0 for NaN, saturation at the ends of the word, else the double
\* rounded toward zero.
fcvtzds(d) ==
  IF d.nan THEN 0
  ELSE IF d.inf \/ (Truncated(d) > kMaxWord) \/ (Truncated(d) < kMinWord)
       THEN (IF d.neg THEN kMinWord ELSE kMaxWord)
       ELSE Truncated(d)

Call == [kind |-> "call", result |-> 0, sdiv |-> NoSdiv]

DoubleToSmiInstr_EmitNativeCode_NoNaNCheck(i) ==
  LET result == fcvtzds(i.value)
  IN IF Holds("MI", SubFlags(result, kSmiMin))
     THEN Deopt(NoSdiv)
     ELSE JavascriptCheck(i, Done(SmiTag(result), NoSdiv))

\* 0xC000000000000000 is the smallest Smi value, -2^(WordBits - 2).
DoubleToSmiInstr_EmitNativeCode(i) ==
  IF Holds("VS", fcmpd(i.value, i.value))
  THEN Deopt(NoSdiv)
  ELSE LET result == fcvtzds(i.value)
       IN IF Holds("MI", SubFlags(result, kSmiMin))
          THEN Deopt(NoSdiv)
          ELSE JavascriptCheck(i, Done(SmiTag(result), NoSdiv))

DoubleToIntegerInstr_EmitNativeCode(i) ==
  IF Holds("VS", fcmpd(i.value, i.value))
  THEN Call
  ELSE LET result == fcvtzds(i.value)
       IN IF Holds("MI", SubFlags(result, kSmiMin))
          THEN Call
          ELSE IF JavascriptCheck(i, Done(SmiTag(result), NoSdiv)).kind
                    = "deopt"
               THEN Call
               ELSE Done(SmiTag(result), NoSdiv)

InitConv ==
  /\ out = NoOut
  /\ field = NoField
  /\ snapshots = NoSnapshots
  /\ \E t \in {"DoubleToSmi", "DoubleToInteger"}, d \in ConversionSamples,
        js \in JavascriptConfigs :
       instr = [tag |-> t, value |-> d,
                throw_on_javascript_int_overflow |-> js.flag,
                range |-> js.range]

EmitDoubleToSmi ==
  /\ out = NoOut
  /\ instr.tag = "DoubleToSmi"
  /\ out' = DoubleToSmiInstr_EmitNativeCode(instr)
  /\ UNCHANGED <<instr, field, snapshots>>

EmitDoubleToInteger ==
  /\ out = NoOut
  /\ instr.tag = "DoubleToInteger"
  /\ out' = DoubleToIntegerInstr_EmitNativeCode(instr)
  /\ UNCHANGED <<instr, field, snapshots>>

NextConv == EmitDoubleToSmi \/ EmitDoubleToInteger

SpecConv == InitConv /\ [][NextConv]_vars

\* The input has no Smi to convert to: it is NaN, or its truncation lies
\* outside the Smi range.
NoSmiForInput ==
  \/ instr.value.nan
  \/ instr.value.inf
  \/ Truncated(instr.value) < kSmiMin
  \/ Truncated(instr.value) > kSmiMax

\* The way out of the inline path: the deopt guard of DoubleToSmi, the
\* call of DoubleToInteger.
ConversionLeftInline ==
  out.kind = (IF instr.tag = "DoubleToSmi" THEN "deopt" ELSE "call")

\* C21 as stated: the inline path is left exactly for NaN and for a
\* truncation outside the Smi range; otherwise the result is the tagged
\* truncation.
C21_Original ==
  (out # NoOut) =>
    IF NoSmiForInput THEN ConversionLeftInline
    ELSE out = Done(SmiRawValue(Truncated(instr.value)), NoSdiv)

\* The check of FLAG_throw_on_javascript_int_overflow is emitted and its
\* branch taken for the tagged truncation.
ConversionJavascriptGuardTaken ==
  /\ instr.throw_on_javascript_int_overflow
  /\ ~IsWithin(instr.range, 0 - kJavascriptIntLimit, kJavascriptIntLimit)
  /\ \/ SmiRawValue(Truncated(instr.value)) < 0 - kJavascriptIntLimit
     \/ SmiRawValue(Truncated(instr.value)) > kJavascriptIntLimit

\* C21 (amended): the inline path is left for NaN, for a truncation outside
\* the Smi range and, under FLAG_throw_on_javascript_int_overflow with a
\* result range not proven inside the JavaScript integer range, for a
\* tagged result outside that range; otherwise the result is the tagged
\* truncation.  No NaN or out-of-range input yields a tagged result.
C21_ConversionGuards ==
  (out # NoOut) =>
    IF NoSmiForInput \/ ConversionJavascriptGuardTaken
    THEN ConversionLeftInline
    ELSE out = Done(SmiRawValue(Truncated(instr.value)), NoSdiv)

\* A double just above the largest Smi left DoubleToSmi by its guard.
C21_Witness ==
  /\ instr.tag = "DoubleToSmi" /\ out.kind = "deopt"
  /\ ~instr.value.nan /\ ~instr.value.inf
  /\ Truncated(instr.value) = kSmiMax + 1
  /\ ~instr.throw_on_javascript_int_overflow


(***************************************************************************)
(* ClosureCall: the machine instructions emitted and the records the       *)
(* compiler makes at the current pc, in emission order.                    *)
(***************************************************************************)
MaxArguments == 3
MaxDeoptId == 3
MaxTokenPos == 1

ToDeoptAfter(deopt_id) == deopt_id + 1

AddCurrentDescriptor(kind, deopt_id, token_pos) ==
  [op |-> "AddCurrentDescriptor", kind |-> kind, deopt_id |-> deopt_id,
   token_pos |-> token_pos]
RecordSafepoint(locs) == [op |-> "RecordSafepoint", locs |-> locs]
AddDeoptIndexAtCall(deopt_id, token_pos) ==
  [op |-> "AddDeoptIndexAtCall", deopt_id |-> deopt_id,
   token_pos |-> token_pos]
Drop(count) == [op |-> "Drop", count |-> count]

\* Records take no room in the instruction stream.
IsRecord(ins) ==
  ins.op \in {"AddCurrentDescriptor", "RecordSafepoint", "AddDeoptIndexAtCall"}

\* The number of machine instructions emitted before position k: the pc
\* offset a record made at k is attached to.
RECURSIVE PcAt(_, _)
PcAt(code, k) ==
  IF k <= 1 THEN 0
  ELSE PcAt(code, k - 1) + (IF IsRecord(code[k - 1]) THEN 0 ELSE 1)

ClosureCallInstr_MakeLocationSummary(i) ==
  [contains_call |-> "kCall", in0 |-> "R0", out0 |-> "R0",
   live_registers |-> {}]

ClosureCallContinuation(i) ==
  IF i.is_optimizing
  THEN AddDeoptIndexAtCall(ToDeoptAfter(i.deopt_id), i.token_pos)
  ELSE AddCurrentDescriptor("kDeopt", ToDeoptAfter(i.deopt_id), i.token_pos)

ClosureCallInstr_EmitNativeCode_DropFirst(i) ==
  <<LoadObjectInto("R4", [kind |-> "arguments_descriptor",
                          count |-> i.argument_count]),
    LoadFieldFromOffset("R2", "R0", "code"),
    [op |-> "LoadImmediate", rd |-> "R5"],
    LoadFieldFromOffset("R2", "R2", "instructions"),
    [op |-> "AddImmediate", rd |-> "R2", rn |-> "R2"],
    [op |-> "blr", rn |-> "R2"],
    AddCurrentDescriptor("kClosureCall", i.deopt_id, i.token_pos),
    Drop(i.argument_count),
    RecordSafepoint(i.locs),
    ClosureCallContinuation(i)>>

ClosureCallInstr_EmitNativeCode(i) ==
  <<LoadObjectInto("R4", [kind |-> "arguments_descriptor",
                          count |-> i.argument_count]),
    LoadFieldFromOffset("R2", "R0", "code"),
    [op |-> "LoadImmediate", rd |-> "R5"],
    LoadFieldFromOffset("R2", "R2", "instructions"),
    [op |-> "AddImmediate", rd |-> "R2", rn |-> "R2"],
    [op |-> "blr", rn |-> "R2"],
    AddCurrentDescriptor("kClosureCall", i.deopt_id, i.token_pos),
    RecordSafepoint(i.locs),
    ClosureCallContinuation(i),
    Drop(i.argument_count)>>

InitCall ==
  /\ out = NoOut
  /\ field = NoField
  /\ snapshots = NoSnapshots
  /\ \E o \in BOOLEAN, n \in 0..MaxArguments, id \in 0..MaxDeoptId,
        t \in 0..MaxTokenPos :
       LET i == [tag |-> "ClosureCall", is_optimizing |-> o,
                 argument_count |-> n, deopt_id |-> id, token_pos |-> t]
       IN instr = i @@ [locs |-> ClosureCallInstr_MakeLocationSummary(i)]

EmitClosureCall ==
  /\ out = NoOut
  /\ instr.tag = "ClosureCall"
  /\ out' = [kind |-> "code", code |-> ClosureCallInstr_EmitNativeCode(instr)]
  /\ UNCHANGED <<instr, field, snapshots>>

NextCall == EmitClosureCall

SpecCall == InitCall /\ [][NextCall]_vars

\* The positions of the call instruction and of the drop of the arguments.
CallPositions ==
  {k \in 1..Len(out.code) : out.code[k].op = "blr"}
DropPositions ==
  {k \in 1..Len(out.code) : out.code[k].op = "Drop"}

\* C22: right after the one blr come the kClosureCall descriptor, the
\* safepoint and the continuation for the deopt-after id, all three at the
\* return address of the call; the arguments are dropped after them.
C22_RecordsAfterCall ==
  (out.kind = "code") =>
    /\ Cardinality(CallPositions) = 1
    /\ \A k \in CallPositions :
         /\ k + 3 <= Len(out.code)
         /\ out.code[k + 1]
              = AddCurrentDescriptor("kClosureCall", instr.deopt_id,
                                     instr.token_pos)
         /\ out.code[k + 2] = RecordSafepoint(instr.locs)
         /\ out.code[k + 3]
              = (IF instr.is_optimizing
                 THEN AddDeoptIndexAtCall(instr.deopt_id + 1, instr.token_pos)
                 ELSE AddCurrentDescriptor("kDeopt", instr.deopt_id + 1,
                                           instr.token_pos))
         /\ \A j \in (k + 1)..(k + 3) :
              PcAt(out.code, j) = PcAt(out.code, k) + 1
         /\ DropPositions = {k + 4}
         /\ out.code[k + 4].count = instr.argument_count

\* An unoptimized closure call with arguments whose kDeopt descriptor sits
\* at the return address, before the drop.
C22_Witness ==
  /\ out.kind = "code" /\ ~instr.is_optimizing /\ instr.argument_count > 0
  /\ \E k \in CallPositions :
       /\ out.code[k + 3].op = "AddCurrentDescriptor"
       /\ out.code[k + 3].kind = "kDeopt"
       /\ PcAt(out.code, k + 3) = PcAt(out.code, k) + 1
       /\ DropPositions = {k + 4}


(***************************************************************************)
(* EmitBranchOnCondition run for every condition NegateCondition knows,    *)
(* every state of the flags and every placement of the fall-through.       *)
(***************************************************************************)
NegatableConditions ==
  {"EQ", "NE", "LT", "LE", "GT", "GE", "CC", "LS", "HI", "CS"}
FlagStates == [n : BOOLEAN, z : BOOLEAN, c : BOOLEAN, v : BOOLEAN]

InitBranch ==
  /\ out = NoOut
  /\ field = NoField
  /\ snapshots = NoSnapshots
  /\ \E c \in NegatableConditions, f \in FlagStates, ft \in FallThroughs :
       instr = [tag |-> "Branch", true_condition |-> c, flags |-> f,
                labels |-> BranchLabels("true_block", "false_block", ft)]

\* Control that runs off the end of the code is in the fall-through block.
EmitBranch ==
  /\ out = NoOut
  /\ instr.tag = "Branch"
  /\ LET code == EmitBranchOnCondition(instr.true_condition, instr.labels)
         ran == Run(code, 1, instr.flags, "unset")
     IN out' = [kind |-> "branched", code |-> code,
                reached |-> IF ran.exit = "end"
                            THEN instr.labels.fall_through
                            ELSE ran.exit]
  /\ UNCHANGED <<instr, field, snapshots>>

NextBranch == EmitBranch

SpecBranch == InitBranch /\ [][NextBranch]_vars

\* C23: one branch to the true label on the true condition when the false
\* label falls through; otherwise a branch to the false label on the
\* negated condition, then a jump to the true label unless it falls
\* through.  Control reaches the true label exactly when the true condition
\* holds, and the negated condition holds exactly when the condition does
\* not.
C23_BranchOnCondition ==
  (out.kind = "branched") =>
    LET c == instr.true_condition
        l == instr.labels
    IN /\ out.code =
            (IF l.fall_through = l.false_label
             THEN <<Branch(l.true_label, c)>>
             ELSE IF l.fall_through = l.true_label
                  THEN <<Branch(l.false_label, NegateCondition(c))>>
                  ELSE <<Branch(l.false_label, NegateCondition(c)),
                         Jump(l.true_label)>>)
       /\ (out.reached = l.true_label) <=> Holds(c, instr.flags)
       /\ (out.reached = l.false_label) <=> ~Holds(c, instr.flags)
       /\ \A k \in 1..Len(out.code) :
            (out.code[k].cond \notin {"AL", c}) =>
              (Holds(out.code[k].cond, instr.flags) <=> ~Holds(c, instr.flags))

\* The unsigned condition LS held with neither label falling through, and
\* control reached the true label by the jump.
C23_Witness ==
  /\ out.kind = "branched" /\ instr.true_condition = "LS"
  /\ instr.labels.fall_through = "next_block"
  /\ Holds("LS", instr.flags) /\ instr.flags.c /\ instr.flags.z
  /\ Len(out.code) = 2
  /\ out.reached = "true_block"


(***************************************************************************)
(* Element addresses of LoadIndexed and StoreIndexed.  Addresses are       *)
(* unsigned words of AddressBits bits.                                     *)
(***************************************************************************)
AddressBits == 10
kHeapObjectTag == 1
AddressWrap(v) == v % Pow2(AddressBits)

IndexScales == {1, 2, 4, 8, 16}
\* DataOffsetFor(class_id) of the in-heap arrays sampled.
DataOffsets == {8, 16, 24}
ArrayBases == {64, 257}

\* add(rd, rn, Operand(rm, shift)) for the shifts the lowering uses.
AddShifted(rn, rm, shift, amount) ==
  AddressWrap(rn + (CASE shift = "ASR" -> rm \div Pow2(amount)
                      [] shift = "LSL" -> AddressWrap(rm * Pow2(amount))))

IndexedOffset(i) ==
  IF i.is_external THEN 0 ELSE i.data_offset - kHeapObjectTag

LoadIndexedInstr_ElementAddress_Scale4Wrong(i, array, index) ==
  LET offset == IndexedOffset(i)
  IN CASE i.index_scale = 1 ->
            AddressWrap(AddShifted(array, index, "ASR", kSmiTagSize) + offset)
       [] i.index_scale = 2 ->
            IF offset # 0
            THEN AddressWrap(AddShifted(array, index, "LSL", 0) + offset)
            ELSE AddressWrap(array + index)
       [] i.index_scale = 4 ->
            AddressWrap(AddShifted(array, index, "LSL", 2) + offset)
       [] i.index_scale = 8 ->
            AddressWrap(AddShifted(array, index, "LSL", 2) + offset)
       [] i.index_scale = 16 ->
            AddressWrap(AddShifted(array, index, "LSL", 3) + offset)

\* array and index are the contents of in(0) and in(1).
LoadIndexedInstr_ElementAddress(i, array, index) ==
  LET offset == IndexedOffset(i)
  IN CASE i.index_scale = 1 ->
            AddressWrap(AddShifted(array, index, "ASR", kSmiTagSize) + offset)
       [] i.index_scale = 2 ->
            IF offset # 0
            THEN AddressWrap(AddShifted(array, index, "LSL", 0) + offset)
            ELSE AddressWrap(array + index)
       [] i.index_scale = 4 ->
            AddressWrap(AddShifted(array, index, "LSL", 1) + offset)
       [] i.index_scale = 8 ->
            AddressWrap(AddShifted(array, index, "LSL", 2) + offset)
       [] i.index_scale = 16 ->
            AddressWrap(AddShifted(array, index, "LSL", 3) + offset)

StoreIndexedInstr_ElementAddress(i, array, index) ==
  LET scaled == CASE i.index_scale = 1 -> index \div Pow2(kSmiTagSize)
                  [] i.index_scale = 2 -> index
                  [] i.index_scale = 4 -> AddressWrap(index * Pow2(1))
                  [] i.index_scale = 8 -> AddressWrap(index * Pow2(2))
                  [] i.index_scale = 16 -> AddressWrap(index * Pow2(3))
      with_header == IF ~i.is_external
                     THEN AddressWrap(scaled + (i.data_offset - kHeapObjectTag))
                     ELSE scaled
  IN AddressWrap(array + with_header)

InitIndexed ==
  /\ out = NoOut
  /\ field = NoField
  /\ snapshots = NoSnapshots
  /\ \E t \in {"LoadIndexed", "StoreIndexed"}, s \in IndexScales,
        e \in BOOLEAN, o \in DataOffsets, b \in ArrayBases, n \in 0..kSmiMax :
       /\ e => (o = 8)
       /\ instr = [tag |-> t, index_scale |-> s, is_external |-> e,
                   data_offset |-> o, array |-> b,
                   index |-> n * Pow2(kSmiTagSize)]

EmitLoadIndexedAddress ==
  /\ out = NoOut
  /\ instr.tag = "LoadIndexed"
  /\ out' = [kind |-> "address",
             address |-> LoadIndexedInstr_ElementAddress(instr, instr.array,
                                                         instr.index),
             other |-> StoreIndexedInstr_ElementAddress(instr, instr.array,
                                                        instr.index)]
  /\ UNCHANGED <<instr, field, snapshots>>

EmitStoreIndexedAddress ==
  /\ out = NoOut
  /\ instr.tag = "StoreIndexed"
  /\ out' = [kind |-> "address",
             address |-> StoreIndexedInstr_ElementAddress(instr, instr.array,
                                                          instr.index),
             other |-> LoadIndexedInstr_ElementAddress(instr, instr.array,
                                                       instr.index)]
  /\ UNCHANGED <<instr, field, snapshots>>

NextIndexed == EmitLoadIndexedAddress \/ EmitStoreIndexedAddress

SpecIndexed == InitIndexed /\ [][NextIndexed]_vars

\* C25: for each element size, Smi index and buffer kind the load and the
\* store address the same element, at base + index * size + header, the
\* header being DataOffsetFor(class) - kHeapObjectTag in the heap and 0 for
\* an external buffer.
C25_SameElementAddress ==
  (out.kind = "address") =>
    /\ out.address = out.other
    /\ out.address
         = instr.array
             + (instr.index \div Pow2(kSmiTagSize)) * instr.index_scale
             + (IF instr.is_external THEN 0
                ELSE instr.data_offset - kHeapObjectTag)

\* A load of the largest Smi index from an in-heap array of 4-byte
\* elements.
C25_Witness ==
  /\ out.kind = "address" /\ instr.tag = "LoadIndexed"
  /\ instr.index_scale = 4 /\ ~instr.is_external
  /\ instr.index = kSmiMax * Pow2(kSmiTagSize)
  /\ out.address = instr.array + 4 * kSmiMax + instr.data_offset - kHeapObjectTag


(***************************************************************************)
(* CheckStackOverflow run: the stack pointer, the stack limit and the      *)
(* usage counter of the function are the run-time inputs.                  *)
(***************************************************************************)
MaxLoopDepth == 2
MaxUsageCounter == 7
\* FLAG_optimization_counter_threshold, scaled.
kOptimizationCounterThreshold == 2

StackCheckThreshold_Flat(i) == kOptimizationCounterThreshold
StackCheckThreshold(i) == kOptimizationCounterThreshold * (i.loop_depth + 1)

StackCheckStart ==
  [flags |-> NoFlags, trace |-> << >>, osr_request |-> FALSE,
   request_at_entry |-> FALSE, calls |-> 0, exit |-> "running",
   after_exit |-> 0]

\* Runs the code of the check followed by the code of its slow path.  trace
\* is the sequence of labels control passed; request_at_entry tells whether
\* the OSR request flag was stored when control came to the common entry;
\* after_exit counts what was executed after the exit label.
RECURSIVE RunStackCheck(_, _, _, _)
RunStackCheck(i, code, pc, st) ==
  IF pc > Len(code) THEN [st EXCEPT !.exit = "end"]
  ELSE LET ins == code[pc]
           step(s) ==
             IF (Len(s.trace) > 0) /\ (s.trace[Len(s.trace)] = "exit")
                  /\ (ins.op # "end")
             THEN [s EXCEPT !.after_exit = @ + 1] ELSE s
       IN CASE ins.op = "end" -> [st EXCEPT !.exit = "end"]
            [] ins.op = "bind" ->
                 RunStackCheck(i, code, pc + 1,
                   [st EXCEPT !.trace = Append(@, ins.target),
                              !.request_at_entry =
                                 IF ins.target = "entry" THEN st.osr_request
                                 ELSE @])
            [] ins.op = "b" ->
                 IF (ins.cond = "AL") \/ Holds(ins.cond, st.flags)
                 THEN RunStackCheck(i, code, BoundAt(code, ins.target), st)
                 ELSE RunStackCheck(i, code, pc + 1, st)
            [] ins.op = "cmp_sp" ->
                 RunStackCheck(i, code, pc + 1,
                   step([st EXCEPT !.flags = SubFlags(i.sp, i.stack_limit)]))
            [] ins.op = "cmp_counter" ->
                 RunStackCheck(i, code, pc + 1,
                   step([st EXCEPT !.flags =
                           SubFlags(i.usage_counter, StackCheckThreshold(i))]))
            [] ins.op = "str" ->
                 RunStackCheck(i, code, pc + 1,
                   step([st EXCEPT !.osr_request = TRUE]))
            [] ins.op = "call" ->
                 RunStackCheck(i, code, pc + 1,
                   step([st EXCEPT !.calls = @ + 1]))
            [] OTHER -> RunStackCheck(i, code, pc + 1, step(st))

StackWords == {kMinWord, 0 - 2, 0, 3, kMaxWord}

InitStack ==
  /\ out = NoOut
  /\ field = NoField
  /\ snapshots = NoSnapshots
  /\ \E o \in BOOLEAN, u \in BOOLEAN, c \in BOOLEAN, l \in BOOLEAN,
        f \in BOOLEAN, sp \in StackWords, limit \in StackWords,
        depth \in 0..MaxLoopDepth, counter \in 0..MaxUsageCounter,
        b \in Allocations :
       LET i == [tag |-> "CheckStackOverflow", opt |-> o, use_osr |-> u,
                 can_osr_function |-> c, in_loop |-> l,
                 force_slow_path |-> f, sp |-> sp, stack_limit |-> limit,
                 loop_depth |-> depth, usage_counter |-> counter]
       IN /\ OtherWellFormed(i)
          /\ (~l) => (depth = 0)
          /\ (~(c /\ l)) => (counter = 0)
          /\ instr = i @@ [locs |-> CheckStackOverflowInstr_MakeLocationSummary(
                                      b @@ [live |-> {b.instance}])]

RunCheckStackOverflow ==
  /\ out = NoOut
  /\ instr.tag = "CheckStackOverflow"
  /\ LET e == CheckStackOverflowInstr_EmitNativeCode(instr, instr.locs)
     IN out' = [kind |-> "checked",
                st |-> RunStackCheck(instr,
                         e.fast \o <<EndOfInstruction>> \o e.slow, 1,
                         StackCheckStart)]
  /\ UNCHANGED <<instr, field, snapshots>>

NextStack == RunCheckStackOverflow

SpecStack == InitStack /\ [][NextStack]_vars

\* The run-time facts the check tests.
StackAtOrBelowLimit == Unsigned(instr.sp) <= Unsigned(instr.stack_limit)
CounterAtThreshold ==
  instr.usage_counter
    >= kOptimizationCounterThreshold * (instr.loop_depth + 1)
ChecksCounter == instr.can_osr_function /\ instr.in_loop

\* Where control went: to the common entry by a branch of the fast path,
\* or to the OSR entry.
WentToEntry ==
  (Len(out.st.trace) > 0) /\ (out.st.trace[1] = "entry")
WentToOsrEntry ==
  (Len(out.st.trace) > 0) /\ (out.st.trace[1] = "osr_entry")

\* C24 as stated: to the entry exactly when the stack pointer is at or
\* below the limit or the slow path is forced; to the OSR entry exactly
\* when the counter is at the threshold.
C24_Original ==
  (out.kind = "checked") =>
    /\ WentToEntry <=> (StackAtOrBelowLimit \/ instr.force_slow_path)
    /\ ChecksCounter => (WentToOsrEntry <=> CounterAtThreshold)

\* C24 (amended): the three tests are made in order, so the OSR entry is
\* taken exactly when the stack check did not fire and the counter is at
\* the threshold, and the forced branch only when neither fired; the OSR
\* entry stores the request before the common entry; the slow path calls
\* the runtime once and control resumes at the exit label, the end of the
\* fast path.
C24_ChecksInOrder ==
  (out.kind = "checked") =>
    LET osr == ChecksCounter /\ ~StackAtOrBelowLimit /\ CounterAtThreshold
    IN /\ WentToOsrEntry <=> osr
       /\ WentToEntry <=>
            (StackAtOrBelowLimit \/ (instr.force_slow_path /\ ~osr))
       /\ out.st.trace =
            (IF osr THEN <<"osr_entry", "entry", "exit">>
             ELSE IF StackAtOrBelowLimit \/ instr.force_slow_path
                  THEN <<"entry", "exit">>
                  ELSE <<"exit">>)
       /\ out.st.request_at_entry = osr
       /\ out.st.calls = (IF Len(out.st.trace) > 1 THEN 1 ELSE 0)
       /\ out.st.exit = "end"
       /\ out.st.after_exit = 0

\* The counter was at the threshold of a loop at depth 2 with the stack
\* above the limit: control went through the OSR entry and came back.
C24_Witness ==
  /\ out.kind = "checked" /\ instr.loop_depth = 2
  /\ instr.usage_counter = 3 * kOptimizationCounterThreshold
  /\ ~StackAtOrBelowLimit /\ ~instr.force_slow_path
  /\ out.st.trace = <<"osr_entry", "entry", "exit">>
  /\ out.st.request_at_entry


(***************************************************************************)
(* GuardField's run-time-checked path against a guard that already         *)
(* records the class of the stored value.                                  *)
(***************************************************************************)
\* The store ran the run-time-checked path (unoptimized code, or optimized
\* code compiled while the field had no guarded class) for a value of
\* statically unknown class.
RanRuntimeCheckedPath ==
  /\ IsGuardedStore
  /\ instr.field_cid # kDynamicCid
  /\ ~instr.is_optimizing \/ (instr.field_cid = kIllegalCid)
  /\ instr.value_cid = kDynamicCid

\* The class id of the value is the one the guard recorded before the store,
\* and the recorded list length, if there is one, is the value's length.
ValueMatchesGuard ==
  /\ LoadValueCid(out.value) = out.before.guarded_cid
  /\ (instr.field_has_length /\ out.before.guarded_list_length >= 0) =>
       (out.value.length = out.before.guarded_list_length)

\* The length the check compares with is the one the guard records now:
\* read from the slot at run time, or fixed at compile time and unchanged.
CompiledAgainstRecordedLength ==
  instr.field_has_length =>
    \/ instr.field_cid = kIllegalCid
    \/ instr.field_length = SmiUntag(out.before.guarded_list_length)

\* C26 as stated: a value whose class id (and length) equals what the guard
\* records reaches the store without the fail path, whether or not the
\* field is recorded as nullable.
C26_Original ==
  (RanRuntimeCheckedPath /\ ValueMatchesGuard) => (out.kind = "ok")

\* C26, the part the code keeps: when the nullability slot holds the same
\* class id as the guard (a field the emitted code recorded itself) and the
\* compiled length is still the recorded one, the matching value reaches
\* the ok label and the guard is left as it was.
C26_MatchingValueOfSelfRecordedGuard ==
  (/\ RanRuntimeCheckedPath
   /\ ValueMatchesGuard
   /\ out.before.is_nullable = out.before.guarded_cid
   /\ CompiledAgainstRecordedLength) =>
    /\ out.kind = "ok"
    /\ field = out.before

\* A non-null value of the guarded class was stored to a field recorded as
\* nullable and took the fail path.
C26_Witness ==
  /\ RanRuntimeCheckedPath
  /\ ValueMatchesGuard
  /\ out.before.guarded_cid = kDoubleCid
  /\ out.before.is_nullable = kNullCid
  /\ out.kind = "runtime"


(***************************************************************************)
(* GuardField in optimized code for a list of statically known class       *)
(* stored to a field whose guard records that class and a fixed length.    *)
(***************************************************************************)
\* The store ran optimized code compiled with the class of the value and
\* the guarded class both known and equal, and a fixed list length recorded.
RanKnownLengthCheck ==
  /\ IsGuardedStore
  /\ instr.is_optimizing
  /\ instr.field_cid \notin {kIllegalCid, kDynamicCid}
  /\ instr.value_cid = instr.field_cid
  /\ instr.field_has_length
  /\ instr.field_length >= 0

\* The outcome of the same store through the code emitted when the class of
\* the value is not known statically.
UnknownClassOutcome ==
  GuardFieldInstr_EmitNativeCode(
    [instr EXCEPT !.value_cid = kDynamicCid], out.before, out.value).kind

\* C27 as stated: the store deoptimizes exactly when the length of the list
\* differs from the recorded length L, as the check for a value of
\* statically unknown class does.
C27_Original ==
  RanKnownLengthCheck =>
    /\ (out.kind = "deopt") <=>
         (SmiUntag(out.value.length) # instr.field_length)
    /\ out.kind = UnknownClassOutcome

\* C27, what the code does: the check for a value of unknown class
\* deoptimizes exactly when the lengths differ; the check for a value of
\* known class compares the tagged length of the list with the untagged L,
\* and the code was compiled against the length the guard still records.
C27_KnownClassComparesUntagged ==
  RanKnownLengthCheck =>
    /\ instr.field_length = SmiUntag(out.before.guarded_list_length)
    /\ (UnknownClassOutcome = "deopt") <=>
         (SmiUntag(out.value.length) # instr.field_length)
    /\ (out.kind = "deopt") <=> (out.value.length # instr.field_length)

\* An array of the recorded length 1 was stored and the store deoptimized.
C27_Witness ==
  /\ RanKnownLengthCheck
  /\ instr.field_cid = kArrayCid
  /\ instr.field_length = 1
  /\ SmiUntag(out.value.length) = 1
  /\ out.kind = "deopt"
  /\ UnknownClassOutcome = "ok"


(***************************************************************************)
(* Truncating SHL: the constant-amount form against the register form.     *)
(***************************************************************************)
\* A truncating SHL whose amount is a Smi constant was lowered and run.
RanConstantTruncatingShift ==
  /\ IsBinarySmiOp({"SHL"}) /\ Ran
  /\ instr.is_truncating
  /\ RightLocIsConstant(instr)

\* The same operation with the amount in a register of unknown range.
RegisterShiftForm ==
  BinarySmiOpInstr_EmitNativeCode(
    [instr EXCEPT !.right_is_constant = FALSE, !.right_range = NullRange,
                  !.can_deopt = TRUE])

\* C28 as stated: for every non-negative amount the two forms leave the
\* same result, and for a negative amount both take the deoptimization
\* path.
C28_Original ==
  RanConstantTruncatingShift =>
    IF RightValue >= 0
    THEN (out.kind = RegisterShiftForm.kind) /\
         (out.result = RegisterShiftForm.result)
    ELSE (out.kind = "deopt") /\ (RegisterShiftForm.kind = "deopt")

\* C28, what the code does: the two forms agree for every amount but
\* Smi::kBits, where the constant form shifts and the register form leaves
\* 0; for a negative amount both take the deoptimization path.
C28_FormsAgreeBelowSmiBits ==
  RanConstantTruncatingShift =>
    IF RightValue < 0
    THEN (out.kind = "deopt") /\ (RegisterShiftForm.kind = "deopt")
    ELSE IF RightValue = kSmiBits
    THEN RegisterShiftForm.kind = "done" /\ RegisterShiftForm.result = 0
    ELSE (out.kind = RegisterShiftForm.kind) /\
         (out.result = RegisterShiftForm.result)

\* Smi 1 was shifted by the constant Smi::kBits: the constant form leaves
\* the top bit of the tagged word, the register form leaves 0.
C28_Witness ==
  /\ RanConstantTruncatingShift
  /\ LeftValue = 1
  /\ RightValue = kSmiBits
  /\ ~instr.throw_on_javascript_int_overflow
  /\ out.kind = "done"
  /\ out.result = Wrap(instr.left * Pow2(kSmiBits))
  /\ out.result # 0
  /\ RegisterShiftForm.result = 0


(***************************************************************************)
(* IfThenElseInstr::EmitNativeCode: a comparison that selects one of two   *)
(* Smi constants without a branch.  The comparison leaves the flags and    *)
(* returns the condition under which it holds.                             *)
(***************************************************************************)
\* Detect pattern when one value is zero and another is a power of 2.
IsPowerOfTwoKind(v1, v2) ==
  (IsPowerOfTwo(v1) /\ (v2 = 0)) \/ (IsPowerOfTwo(v2) /\ (v1 = 0))

\* and of two words, bit by bit.
WordBit(w, k) == (Unsigned(w) \div Pow2(k)) % 2
RECURSIVE AndBits(_, _, _)
AndBits(a, b, k) ==
  IF k >= WordBits THEN 0
  ELSE WordBit(a, k) * WordBit(b, k) * Pow2(k) + AndBits(a, b, k + 1)
AndImmediate(a, imm) == Wrap(AndBits(a, imm, 0))

\* The condition cset is given.
IfThenElseCondition_NeverNegated(i) == i.true_condition
IfThenElseCondition(i) ==
  IF IsPowerOfTwoKind(i.if_true, i.if_false)
  THEN IF i.if_true = 0 THEN NegateCondition(i.true_condition)
       ELSE i.true_condition
  ELSE IF i.if_true = 0 THEN i.true_condition
       ELSE NegateCondition(i.true_condition)

\* The instructions emitted after the comparison.
IfThenElseInstr_EmitNativeCode(i) ==
  LET is_power_of_two_kind == IsPowerOfTwoKind(i.if_true, i.if_false)
      swapped == ~is_power_of_two_kind /\ (i.if_true = 0)
      true_value == IF swapped THEN i.if_false ELSE i.if_true
      false_value == IF swapped THEN i.if_true ELSE i.if_false
      maximum == IF true_value > false_value THEN true_value ELSE false_value
      val == SmiRawValue(true_value) - SmiRawValue(false_value)
  IN <<[op |-> "cset", operand |-> IfThenElseCondition(i)]>> \o
     (IF is_power_of_two_kind
      THEN <<[op |-> "lsl",
              operand |-> ShiftForPowerOfTwo(maximum) + kSmiTagSize]>>
      ELSE <<[op |-> "sub", operand |-> 1],
             [op |-> "and", operand |-> Wrap(val)]>> \o
           (IF false_value # 0
            THEN <<[op |-> "add", operand |-> SmiRawValue(false_value)]>>
            ELSE << >>))

\* The result register after the instructions from position k on.
RECURSIVE RunIfThenElse(_, _, _, _)
RunIfThenElse(code, k, flags, result) ==
  IF k > Len(code) THEN result
  ELSE LET ins == code[k]
           next ==
             CASE ins.op = "cset" ->
                    IF Holds(ins.operand, flags) THEN 1 ELSE 0
               [] ins.op = "lsl" -> Lsl(result, ins.operand)
               [] ins.op = "sub" -> Wrap(result - ins.operand)
               [] ins.op = "and" -> AndImmediate(result, ins.operand)
               [] ins.op = "add" -> Wrap(result + ins.operand)
       IN RunIfThenElse(code, k + 1, flags, next)

\* Every Smi comparison outcome with every pair of Smi constants.
InitIfThenElse ==
  /\ out = NoOut
  /\ field = NoField
  /\ snapshots = NoSnapshots
  /\ \E c \in NegatableConditions, f \in FlagStates,
        t \in SmiValue, e \in SmiValue :
       instr = [tag |-> "IfThenElse", true_condition |-> c, flags |-> f,
                if_true |-> t, if_false |-> e]

EmitIfThenElse ==
  /\ out = NoOut
  /\ instr.tag = "IfThenElse"
  /\ LET code == IfThenElseInstr_EmitNativeCode(instr)
     IN out' = [kind |-> "selected", code |-> code,
                result |-> RunIfThenElse(code, 1, instr.flags, 0)]
  /\ UNCHANGED <<instr, field, snapshots>>

NextIfThenElse == EmitIfThenElse

SpecIfThenElse == InitIfThenElse /\ [][NextIfThenElse]_vars

\* C29: the result register holds the tagged if_true when the comparison
\* holds and the tagged if_false when it does not; one constant zero and
\* the other a power of two gives cset and a shift, any other pair gives
\* cset, subtract 1, mask, and an add unless the value added is zero.
C29_SelectsTaggedConstant ==
  (out.kind = "selected") =>
    /\ out.result =
         SmiRawValue(IF Holds(instr.true_condition, instr.flags)
                     THEN instr.if_true ELSE instr.if_false)
    /\ LET ops == [k \in 1..Len(out.code) |-> out.code[k].op]
       IN IF IsPowerOfTwoKind(instr.if_true, instr.if_false)
          THEN ops = <<"cset", "lsl">>
          ELSE ops \in {<<"cset", "sub", "and">>,
                        <<"cset", "sub", "and", "add">>}

\* The general form selected between two non-zero constants of opposite
\* sign, and the comparison held.
C29_Witness ==
  /\ out.kind = "selected"
  /\ Len(out.code) = 4
  /\ instr.if_true < 0
  /\ instr.if_false > 0
  /\ Holds(instr.true_condition, instr.flags)
  /\ out.result = SmiRawValue(instr.if_true)


(***************************************************************************)
(* InstantiateTypeArgumentsInstr::EmitNativeCode: the lookup in the        *)
(* instantiations cache, run one loop iteration at a time.  The cache is   *)
(* an array of (instantiator, instantiated type arguments) pairs; it       *)
(* starts as Object::zero_array(), so the pair after the last one filled   *)
(* holds Smi kNoInstantiator.  R2 is counted in words from the first       *)
(* element of the array.                                                   *)
(***************************************************************************)
MaxCacheEntries == 2
MaxInstantiators == 2
kNoInstantiator == 0

\* Tagged references: the null object, the type argument vectors that
\* instantiate, the vectors the cache holds, and the one the runtime makes.
ObjectWord(n) == 2 * n + kHeapObjectTag
NullTypeArguments == ObjectWord(0)
InstantiatorWords == {ObjectWord(n) : n \in 0..MaxInstantiators}
CachedInstantiation(k) == ObjectWord(MaxInstantiators + k)
RuntimeInstantiation == ObjectWord(MaxInstantiators + MaxCacheEntries + 2)

InstantiatorLists ==
  UNION {[1..n -> InstantiatorWords] : n \in 0..MaxCacheEntries}

\* The elements of the cache that holds the instantiators s, in order.
InstantiationsCache(s) ==
  [j \in 1..(2 * Len(s) + 2) |->
     IF j > 2 * Len(s) THEN SmiRawValue(kNoInstantiator)
     ELSE IF j % 2 = 1 THEN s[(j + 1) \div 2]
     ELSE CachedInstantiation(j \div 2)]

\* Every word a load may return.
CacheWords ==
  InstantiatorWords \cup {SmiRawValue(kNoInstantiator)} \cup
  {CachedInstantiation(k) : k \in 1..(MaxCacheEntries + 1)}

\* AddImmediate(R2, R2, 2 * kWordSize): on to the next pair.
NextCacheEntry_Stuck(r2) == r2
NextCacheEntry(r2) == r2 + 2

InitInstantiate ==
  /\ out = NoOut
  /\ field = NoField
  /\ snapshots = NoSnapshots
  /\ \E s \in InstantiatorLists, r0 \in InstantiatorWords, raw \in BOOLEAN :
       instr = [tag |-> "InstantiateTypeArguments",
                instantiations |-> InstantiationsCache(s),
                instantiator |-> r0,
                is_raw_instantiated_raw |-> raw]

\* Up to Bind(&loop): a null instantiator of a vector that instantiates to
\* dynamic is the result; otherwise R2 is set to the first element.
EnterInstantiateTypeArguments ==
  /\ out = NoOut
  /\ instr.tag = "InstantiateTypeArguments"
  /\ out' = IF instr.is_raw_instantiated_raw /\
               Holds("EQ", SubFlags(instr.instantiator, NullTypeArguments))
            THEN [kind |-> "lookup", pc |-> "type_arguments_instantiated",
                  R0 |-> instr.instantiator, R1 |-> 0, R2 |-> 0,
                  looked_up |-> FALSE, called |-> FALSE]
            ELSE [kind |-> "lookup", pc |-> "loop",
                  R0 |-> instr.instantiator, R1 |-> 0, R2 |-> 0,
                  looked_up |-> TRUE, called |-> FALSE]
  /\ UNCHANGED <<instr, field, snapshots>>

\* From Bind(&loop) to b(&slow_case): a load past the array returns any
\* word.
LookupIteration ==
  /\ out.kind = "lookup"
  /\ out.pc = "loop"
  /\ \E r1 \in CacheWords :
       /\ (out.R2 + 1 \in DOMAIN instr.instantiations) =>
            (r1 = instr.instantiations[out.R2 + 1])
       /\ out' =
            IF Holds("EQ", SubFlags(r1, out.R0))
            THEN [out EXCEPT !.R1 = r1, !.pc = "found"]
            ELSE [out EXCEPT
                    !.R1 = r1,
                    !.R2 = NextCacheEntry(out.R2),
                    !.pc = IF Holds("NE",
                                    SubFlags(r1,
                                             SmiRawValue(kNoInstantiator)))
                           THEN "loop" ELSE "slow_case"]
  /\ UNCHANGED <<instr, field, snapshots>>

\* Bind(&found): the instantiated type arguments cached beside the match.
LookupFound ==
  /\ out.kind = "lookup"
  /\ out.pc = "found"
  /\ \E r0 \in CacheWords :
       /\ (out.R2 + 2 \in DOMAIN instr.instantiations) =>
            (r0 = instr.instantiations[out.R2 + 2])
       /\ out' = [out EXCEPT !.R0 = r0, !.pc = "type_arguments_instantiated"]
  /\ UNCHANGED <<instr, field, snapshots>>

\* Bind(&slow_case): the runtime instantiates and the result is popped.
LookupSlowCase ==
  /\ out.kind = "lookup"
  /\ out.pc = "slow_case"
  /\ out' = [out EXCEPT !.R0 = RuntimeInstantiation, !.called = TRUE,
                        !.pc = "type_arguments_instantiated"]
  /\ UNCHANGED <<instr, field, snapshots>>

NextInstantiate ==
  \/ EnterInstantiateTypeArguments
  \/ LookupIteration
  \/ LookupFound
  \/ LookupSlowCase

SpecInstantiate == InitInstantiate /\ [][NextInstantiate]_vars

\* The emitted code is straight-line machine code: it keeps running.
SpecInstantiateFair == SpecInstantiate /\ WF_vars(NextInstantiate)

\* The pairs filled in: those before the first Smi kNoInstantiator.
CachedPairs == 1..((Len(instr.instantiations) - 2) \div 2)
MatchingPairs ==
  {k \in CachedPairs : instr.instantiations[2 * k - 1] = instr.instantiator}
FirstMatchingPair ==
  CHOOSE k \in MatchingPairs : \A j \in MatchingPairs : k <= j

LookupFinished ==
  (out.kind = "lookup") /\ (out.pc = "type_arguments_instantiated")

\* The loop never reads past the pair that holds the sentinel, and once
\* finished it has called the runtime exactly when no pair matches, and has
\* otherwise left the instantiated arguments of the first matching pair.
LookupOutcome ==
  (out.kind = "lookup" /\ out.looked_up) =>
    /\ (out.pc \in {"loop", "found"}) =>
         (out.R2 + 2 \in DOMAIN instr.instantiations)
    /\ LookupFinished =>
         IF MatchingPairs = {}
         THEN out.called /\ (out.R0 = RuntimeInstantiation)
         ELSE ~out.called /\
              (out.R0 = instr.instantiations[2 * FirstMatchingPair])

\* C30: over a cache of pairs ended by the kNoInstantiator sentinel the
\* lookup loop always terminates; it leaves the instantiated arguments of
\* the first pair whose instantiator is the input, and reaches the runtime
\* call exactly when the sentinel is met before any matching pair.
C30_LookupTerminates ==
  /\ []LookupOutcome
  /\ <>LookupFinished

\* The cache holds the input twice and the lookup left the first pair's
\* instantiated arguments.
C30_Witness ==
  /\ LookupFinished
  /\ out.looked_up
  /\ Cardinality(MatchingPairs) = 2
  /\ out.R0 = CachedInstantiation(1)
  /\ ~out.called

=============================================================================
